---------------------------- MODULE Spec2Model ----------------------------
(***************************************************************************)
(* Verification model of the Reality Defender Go SDK result polling:       *)
(* Client.PollForResults / Client.pollForResults (event-driven polling),   *)
(* Client.GetResult / getDetectionResult (bounded-attempts fetch),         *)
(* FormatResult, httpClient.get / handleResponse and Client.emit.          *)
(***************************************************************************)
EXTENDS Integers, Sequences, FiniteSets, TLC

(***************************************************************************)
(* Bounds of the model.                                                    *)
(***************************************************************************)
\* PollOptions.PollingInterval ranges over -1..MaxInterval (milliseconds).
MaxInterval == 2
\* PollOptions.Timeout ranges over -1..MaxTimeout (milliseconds).
MaxTimeout == 3
\* Number of mode B loop iterations that are explored for one call.
MaxIters == 3
\* Longest list of per-model entries in a status payload.
MaxModels == 1
\* GetResultOptions.MaxAttempts ranges over -1..MaxAttemptsOpt.
MaxAttemptsOpt == 3
\* Longest list of per-model entries in a payload answering a direct GetResult.
MaxModelsA == 2
\* Number of On calls the goroutines make from outside a handler, in all.
MaxOns == 2
\* PollOptions.Timeout of the concurrent polls ranges over 1..MaxTimeoutD.
MaxTimeoutD == 1
\* Longest list of per-model entries in an argument of FormatResult.
MaxModelsF == 1
\* Longest mediaList of a page answered to GetResults.
MaxListItems == 2

(***************************************************************************)
(* Program constants.                                                      *)
(***************************************************************************)
defaultMaxAttempts == 30
DefaultPollingInterval == 2000
DefaultTimeout == 60000

(***************************************************************************)
(* Values.  Every value is a record with a "type" field.                   *)
(***************************************************************************)
Nil == [type |-> "nil"]

\* *SDKError{Message, Code}
SDKError(code, message) == [type |-> "SDKError", Code |-> code, Message |-> message]

\* ctx.Err(): context.Canceled or context.DeadlineExceeded
CtxErrors == {"context canceled", "context deadline exceeded"}
CtxError(e) == [type |-> "ctxError", Message |-> e]

\* errors.New(message)
PlainError(message) == [type |-> "error", Message |-> message]

\* A *float64 score: Nil or the rational num/den.
Score(n, d) == [type |-> "score", num |-> n, den |-> d]

(***************************************************************************)
(* FormatResult                                                            *)
(***************************************************************************)
\* Mutant: the score is copied as it is.
NormalizeScore_NoRescale(s) == s

\* Mutant: a score of exactly 1 is taken to be on the 0-100 scale too.
NormalizeScore_FromOne(s) ==
    IF s = Nil THEN Nil
    ELSE IF s.num >= s.den THEN Score(s.num, s.den * 100)
    ELSE s

\* "if normalizedScore > 1 { normalizedScore = normalizedScore / 100.0 }"
NormalizeScore(s) ==
    IF s = Nil THEN Nil
    ELSE IF s.num > s.den THEN Score(s.num, s.den * 100)
    ELSE s

\* Mutant: the comparison with "FAKE" ignores case.
RewriteStatus_CaseInsensitive(status) ==
    IF status \in {"FAKE", "fake"} THEN "MANIPULATED" ELSE status

\* "if status == "FAKE" { status = "MANIPULATED" }"
RewriteStatus(status) == IF status = "FAKE" THEN "MANIPULATED" ELSE status

FormatModel(model) ==
    [Name |-> model.Name,
     Status |-> RewriteStatus(model.Status),
     Score |-> NormalizeScore(model.FinalScore)]

FormatResult(response) ==
    [type |-> "DetectionResult",
     RequestID |-> response.RequestID,
     Status |-> RewriteStatus(response.Status),
     Score |-> NormalizeScore(response.FinalScore),
     Models |-> [i \in 1..Len(response.Models) |-> FormatModel(response.Models[i])]]

(***************************************************************************)
(* Transport: httpClient.get and handleResponse                            *)
(***************************************************************************)
\* Raw resultsSummary.status values and per-model status values the server sends.
OverallStatuses == {"ANALYZING", "FAKE", "AUTHENTIC"}
ModelStatuses == {"ANALYZING", "NOT_APPLICABLE", "FAKE"}

\* The raw score the server attaches to a status: none while analyzing,
\* a 0-100 scale value for FAKE, a 0-1 scale value otherwise.
RawScore(status) ==
    IF status \in {"ANALYZING", "NOT_APPLICABLE"} THEN Nil
    ELSE IF status = "FAKE" THEN Score(95, 1)
    ELSE Score(5, 100)

ModelNames == <<"m1", "m2", "m3">>

ModelLists == UNION {[1..n -> ModelStatuses] : n \in 0..MaxModels}

RawModels(statuses) ==
    [i \in 1..Len(statuses) |->
        [Name |-> ModelNames[i], Status |-> statuses[i], FinalScore |-> RawScore(statuses[i])]]

\* MediaResponse values (the fields FormatResult reads).
MediaResponses ==
    {[type |-> "MediaResponse", RequestID |-> "test-request-id", Status |-> s,
      FinalScore |-> RawScore(s), Models |-> RawModels(ms)] :
        s \in OverallStatuses, ms \in ModelLists}

\* A 200 body that json.Unmarshal rejects.
Garbage == [type |-> "garbage"]

\* HTTP responses of the status endpoint.
HttpResponses ==
    {[StatusCode |-> 200, Body |-> b] : b \in MediaResponses \cup {Garbage}}
    \cup {[StatusCode |-> c, Body |-> Nil] : c \in {400, 401, 404, 500}}

\* handleResponse: 2xx gives the body bytes, anything else an SDKError.
handleResponse(resp) ==
    IF resp.StatusCode >= 200 /\ resp.StatusCode < 300
    THEN [type |-> "bytes", Body |-> resp.Body]
    ELSE IF resp.StatusCode = 401
    THEN SDKError("unauthorized", "Unauthorized: Invalid API key")
    ELSE IF resp.StatusCode = 404
    THEN SDKError("not_found", "Resource not found")
    ELSE IF resp.StatusCode = 500
    THEN SDKError("server_error", "Server error")
    ELSE SDKError("unknown_error", "Unknown error (HTTP)")

\* httpClient.get when c.httpClient.Do fails (the request context is done),
\* or when reading the body fails for the same reason.
RequestFailed(cause) ==
    IF cause = "context canceled"
    THEN {SDKError("server_error", "request failed: context canceled"),
          SDKError("unknown_error", "failed to read response body: context canceled")}
    ELSE {SDKError("server_error", "request failed: context deadline exceeded"),
          SDKError("unknown_error", "failed to read response body: context deadline exceeded")}

\* What one call of httpClient.get can return, given ctx.Err().
GetOutcomes(cerr) ==
    IF cerr = Nil THEN {handleResponse(r) : r \in HttpResponses}
    ELSE RequestFailed(cerr.Message)

\* Mutant: no error is taken for a not_found error.
IsNotFound_Never(err) == FALSE

\* Mutant: server errors are retried like not_found errors.
IsNotFound_OrServerError(err) ==
    err.type = "SDKError" /\ err.Code \in {"not_found", "server_error"}

\* Mutant: every SDKError is taken for a not_found error.
IsNotFound_AnySDKError(err) == err.type = "SDKError"

IsNotFound(err) == err.type = "SDKError" /\ err.Code = "not_found"

(***************************************************************************)
(* State                                                                   *)
(***************************************************************************)
VARIABLES
    pc,               \* position of the calling goroutine
    ctxErr,           \* ctx.Err(): Nil until the context is cancelled
    pollingInterval,  \* pollForResults parameter
    timeout,          \* pollForResults parameter (maxWaitTime)
    elapsed,          \* pollForResults local
    isCompleted,      \* pollForResults local
    maxAttempts,      \* getDetectionResult local
    getInterval,      \* getDetectionResult local pollingInterval
    attempt,          \* getDetectionResult local
    gres,             \* what GetResult returned: [result, err]
    ret,              \* what PollForResults returned
    emitted,          \* sequence of emit(event, data) calls
    fetches,          \* number of httpClient.get calls
    lastOut,          \* outcome of the latest httpClient.get call
    priorAnalyzing,   \* every outcome before the latest was an ANALYZING payload
    waited,           \* durations of the waits and sleeps started so far
    opts,             \* the options argument of the PollForResults call
    kinds,            \* kinds of the outcomes a direct GetResult call has received
    cancelledAt,      \* where the goroutine was when the context was cancelled
    handlers,         \* Client.handlers: event name -> list of handlers
    eventsMutex,      \* Client.eventsMutex: who holds or awaits the RWMutex
    gor,              \* goroutines using one client concurrently: their locals
    fmtIn,            \* argument of the latest FormatResult call
    fmtOut,           \* what that call returned
    upc,              \* where the Upload or UploadSocialMedia call is
    upIn,             \* that call, its options and what the file system holds
    upOut,            \* what that call returned: [result, err]
    requests          \* the HTTP requests that call has issued

pollVars == <<pollingInterval, timeout, elapsed, isCompleted>>
getVars == <<maxAttempts, getInterval, attempt, gres>>
dispVars == <<handlers, eventsMutex, gor>>
fmtVars == <<fmtIn, fmtOut>>
upVars == <<upc, upIn, upOut, requests>>
histVars == <<fetches, lastOut, priorAnalyzing, opts, kinds, cancelledAt, dispVars, fmtVars, upVars>>
vars == <<pc, ctxErr, pollingInterval, timeout, elapsed, isCompleted,
          maxAttempts, getInterval, attempt, gres, ret, emitted,
          fetches, lastOut, priorAnalyzing, waited, opts, kinds, cancelledAt,
          handlers, eventsMutex, gor, fmtIn, fmtOut, upc, upIn, upOut, requests>>

\* *PollOptions values: nil or a struct.
PollOptionsValues ==
    {Nil} \cup {[type |-> "PollOptions", PollingInterval |-> i, Timeout |-> t] :
                    i \in (-1)..MaxInterval, t \in (-1)..MaxTimeout}

\* c.emit(event, data)
emit(log, event, data) == Append(log, [event |-> event, data |-> data])

TimeoutError == SDKError("timeout", "Polling timeout exceeded")

\* Goroutines that share one client.
Goroutines == {"g1", "g2"}

\* "handlers: make(map[string][]EventHandler)"
EmptyRegistry == [e \in {} |-> <<>>]

\* The locals of a goroutine before it has called anything.
FreshGoroutine ==
    [pc |-> "idle", ons |-> 0, event |-> "", handler |-> Nil, tmp |-> <<>>,
     inHandler |-> FALSE, registered |-> <<>>,
     pollingInterval |-> 0, timeout |-> 0, elapsed |-> 0, isCompleted |-> FALSE,
     ret |-> Nil, outs |-> <<>>, emits |-> <<>>,
     ev |-> "", data |-> Nil, hs |-> <<>>, i |-> 0, after |-> "", calls |-> <<>>]

\* The client after New, before any call.
InitClient ==
    /\ handlers = EmptyRegistry
    /\ eventsMutex = [writers |-> {}, readers |-> {}]
    /\ gor = [g \in Goroutines |-> FreshGoroutine]
    /\ upc = "idle"
    /\ upIn = Nil
    /\ upOut = Nil
    /\ requests = <<>>
    /\ pc = "idle"
    /\ ctxErr = Nil
    /\ pollingInterval = 0
    /\ timeout = 0
    /\ elapsed = 0
    /\ isCompleted = FALSE
    /\ maxAttempts = 0
    /\ getInterval = 0
    /\ attempt = 0
    /\ gres = Nil
    /\ ret = Nil
    /\ emitted = <<>>
    /\ fetches = 0
    /\ lastOut = Nil
    /\ priorAnalyzing = TRUE
    /\ waited = {}
    /\ opts = Nil
    /\ kinds = {}
    /\ cancelledAt = "never"

Init ==
    /\ InitClient
    /\ fmtIn = Nil
    /\ fmtOut = Nil

(***************************************************************************)
(* Client.PollForResults and Client.pollForResults                         *)
(***************************************************************************)
\* Mutant: the Timeout option is taken as given, without the default.
PollForResults_NoTimeoutDefault(options) ==
    /\ pc = "idle"
    /\ LET pi == IF options # Nil /\ options.PollingInterval > 0
                 THEN options.PollingInterval ELSE DefaultPollingInterval
           to == IF options # Nil THEN options.Timeout ELSE DefaultTimeout
       IN /\ pollingInterval' = pi
          /\ timeout' = to
          /\ elapsed' = 0
          /\ isCompleted' = FALSE
          /\ IF to <= 0
             THEN /\ emitted' = emit(emitted, "error", TimeoutError)
                  /\ ret' = PlainError("polling timeout exceeded")
                  /\ pc' = "done"
             ELSE /\ pc' = "loop"
                  /\ UNCHANGED <<emitted, ret>>
    /\ opts' = options
    /\ UNCHANGED <<ctxErr, getVars, fetches, lastOut, priorAnalyzing, kinds, cancelledAt,
                   waited, dispVars, fmtVars, upVars>>

\* Mutant: the PollingInterval option is taken as given, without the default.
PollForResults_NoIntervalDefault(options) ==
    /\ pc = "idle"
    /\ LET pi == IF options # Nil THEN options.PollingInterval ELSE DefaultPollingInterval
           to == IF options # Nil /\ options.Timeout > 0
                 THEN options.Timeout ELSE DefaultTimeout
       IN /\ pollingInterval' = pi
          /\ timeout' = to
          /\ elapsed' = 0
          /\ isCompleted' = FALSE
          /\ pc' = "loop"
          /\ UNCHANGED <<emitted, ret>>
    /\ opts' = options
    /\ UNCHANGED <<ctxErr, getVars, fetches, lastOut, priorAnalyzing, kinds, cancelledAt,
                   waited, dispVars, fmtVars, upVars>>

\* PollForResults: option defaults, then the entry of pollForResults up to
\* its loop (the "timeout <= 0" check included).
PollForResults(options) ==
    /\ pc = "idle"
    /\ LET pi == IF options # Nil /\ options.PollingInterval > 0
                 THEN options.PollingInterval ELSE DefaultPollingInterval
           to == IF options # Nil /\ options.Timeout > 0
                 THEN options.Timeout ELSE DefaultTimeout
       IN /\ pollingInterval' = pi
          /\ timeout' = to
          /\ elapsed' = 0
          /\ isCompleted' = FALSE
          /\ IF to <= 0
             THEN /\ emitted' = emit(emitted, "error", TimeoutError)
                  /\ ret' = PlainError("polling timeout exceeded")
                  /\ pc' = "done"
             ELSE /\ pc' = "loop"
                  /\ UNCHANGED <<emitted, ret>>
    /\ opts' = options
    /\ UNCHANGED <<ctxErr, getVars, fetches, lastOut, priorAnalyzing, kinds, cancelledAt,
                   waited, dispVars, fmtVars, upVars>>

\* Loop condition false with isCompleted set: falls through to "return nil".
LoopExitCompleted ==
    /\ pc = "loop"
    /\ ~(~isCompleted /\ elapsed < timeout)
    /\ ~(~isCompleted /\ elapsed >= timeout)
    /\ ret' = Nil
    /\ pc' = "done"
    /\ UNCHANGED <<ctxErr, pollVars, getVars, emitted, histVars, waited>>

\* Mutant: running out of time returns nil and emits nothing.
LoopExitTimeout_Silent ==
    /\ pc = "loop"
    /\ ~(~isCompleted /\ elapsed < timeout)
    /\ ~isCompleted /\ elapsed >= timeout
    /\ ret' = Nil
    /\ pc' = "done"
    /\ UNCHANGED <<ctxErr, pollVars, getVars, emitted, histVars, waited>>

\* Mutant: the timeout is noticed only once elapsed has passed it.
LoopExitTimeout_StrictlyAfter ==
    /\ pc = "loop"
    /\ ~isCompleted /\ elapsed > timeout
    /\ emitted' = emit(emitted, "error", TimeoutError)
    /\ ret' = TimeoutError
    /\ pc' = "done"
    /\ UNCHANGED <<ctxErr, pollVars, getVars, histVars, waited>>

\* Loop condition false without a final result: the timeout error.
LoopExitTimeout ==
    /\ pc = "loop"
    /\ ~(~isCompleted /\ elapsed < timeout)
    /\ ~isCompleted /\ elapsed >= timeout
    /\ emitted' = emit(emitted, "error", TimeoutError)
    /\ ret' = TimeoutError
    /\ pc' = "done"
    /\ UNCHANGED <<ctxErr, pollVars, getVars, histVars, waited>>

\* "case <-ctx.Done(): return ctx.Err()"
LoopCancelled ==
    /\ pc = "loop"
    /\ ~isCompleted /\ elapsed < timeout
    /\ ctxErr # Nil
    /\ ret' = ctxErr
    /\ pc' = "done"
    /\ UNCHANGED <<ctxErr, pollVars, getVars, emitted, histVars, waited>>

\* "default: result, err := c.GetResult(ctx, requestID, nil)": GetResult and
\* getDetectionResult up to the loop, with the defaults of nil options.
LoopCallGetResult ==
    /\ pc = "loop"
    /\ ~isCompleted /\ elapsed < timeout
    /\ ctxErr = Nil
    /\ elapsed \div pollingInterval < MaxIters
    /\ maxAttempts' = defaultMaxAttempts
    /\ getInterval' = DefaultPollingInterval
    /\ attempt' = 0
    /\ gres' = Nil
    /\ pc' = "get"
    /\ UNCHANGED <<ctxErr, pollVars, ret, emitted, histVars, waited>>

(***************************************************************************)
(* getDetectionResult                                                      *)
(***************************************************************************)
\* Loop head "for attempt < maxAttempts": issue client.get, or leave the loop
\* with the "exceeded maximum number of polling attempts" error.
GetIssue ==
    /\ pc = "get"
    /\ IF attempt < maxAttempts
       THEN /\ fetches' = fetches + 1
            /\ pc' = "inflight"
            /\ UNCHANGED gres
       ELSE /\ gres' = [result |-> Nil,
                        err |-> SDKError("timeout", "exceeded maximum number of polling attempts")]
            /\ pc' = "returned"
            /\ UNCHANGED fetches
    /\ UNCHANGED <<ctxErr, pollVars, maxAttempts, getInterval, attempt, ret, emitted,
                   lastOut, priorAnalyzing, waited, opts, kinds, cancelledAt,
                   dispVars, fmtVars, upVars>>

IsAnalyzingPayload(out) ==
    /\ out.type = "bytes"
    /\ out.Body # Garbage
    /\ out.Body.Status = "ANALYZING"

\* Mutant: one ANALYZING model is enough, whatever the other models say.
ModelsScan_AnyAnalyzing(models, i, hasAnalyzingModels) ==
    \E k \in DOMAIN models : models[k].Status = "ANALYZING"

\* "allModelsAnalyzingOrNA && hasAnalyzingModels" as the loop computes it.
RECURSIVE ModelsScan(_, _, _)
ModelsScan(models, i, hasAnalyzingModels) ==
    IF i > Len(models) THEN hasAnalyzingModels
    ELSE IF models[i].Status # "ANALYZING" /\ models[i].Status # "NOT_APPLICABLE" THEN FALSE
    ELSE ModelsScan(models, i + 1, hasAnalyzingModels \/ models[i].Status = "ANALYZING")

\* Mutant: every result is taken for a pending one.
StillPending_Always(result) == TRUE

\* "isAnalyzing || (allModelsAnalyzingOrNA && hasAnalyzingModels)"
StillPending(result) ==
    result.Status = "ANALYZING" \/ ModelsScan(result.Models, 1, FALSE)

\* Mutant: running out of attempts on a pending payload is a timeout error.
GetReturn_PendingExhaustionFails(out) ==
    /\ pc = "inflight"
    /\ lastOut' = out
    /\ priorAnalyzing' = (priorAnalyzing /\ (lastOut = Nil \/ IsAnalyzingPayload(lastOut)))
    /\ IF out.type = "SDKError"
       THEN IF IsNotFound(out)
            THEN /\ attempt' = attempt + 1
                 /\ IF attempt + 1 >= maxAttempts
                    THEN /\ gres' = [result |-> Nil, err |-> out]
                         /\ pc' = "returned"
                         /\ UNCHANGED waited
                    ELSE /\ pc' = "wait"
                         /\ waited' = waited \cup {getInterval}
                         /\ UNCHANGED gres
            ELSE /\ gres' = [result |-> Nil, err |-> out]
                 /\ pc' = "returned"
                 /\ UNCHANGED <<attempt, waited>>
       ELSE IF out.Body = Garbage
            THEN /\ gres' = [result |-> Nil,
                             err |-> SDKError("unknown_error", "failed to parse result response")]
                 /\ pc' = "returned"
                 /\ UNCHANGED <<attempt, waited>>
            ELSE LET result == FormatResult(out.Body)
                 IN IF StillPending(result)
                    THEN /\ attempt' = attempt + 1
                         /\ IF attempt + 1 >= maxAttempts
                            THEN /\ gres' = [result |-> Nil,
                                             err |-> SDKError("timeout", "exceeded maximum number of polling attempts")]
                                 /\ pc' = "returned"
                                 /\ UNCHANGED waited
                            ELSE /\ pc' = "wait"
                                 /\ waited' = waited \cup {getInterval}
                                 /\ UNCHANGED gres
                    ELSE /\ gres' = [result |-> result, err |-> Nil]
                         /\ pc' = "returned"
                         /\ UNCHANGED <<attempt, waited>>
    /\ UNCHANGED <<ctxErr, pollVars, maxAttempts, getInterval, ret, emitted, fetches, opts,
                   cancelledAt, dispVars, fmtVars, upVars>>

\* Mutant: running out of attempts on not_found is a timeout error.
GetReturn_NotFoundExhaustionTimeout(out) ==
    /\ pc = "inflight"
    /\ lastOut' = out
    /\ priorAnalyzing' = (priorAnalyzing /\ (lastOut = Nil \/ IsAnalyzingPayload(lastOut)))
    /\ IF out.type = "SDKError"
       THEN IF IsNotFound(out)
            THEN /\ attempt' = attempt + 1
                 /\ IF attempt + 1 >= maxAttempts
                    THEN /\ gres' = [result |-> Nil,
                                     err |-> SDKError("timeout", "exceeded maximum number of polling attempts")]
                         /\ pc' = "returned"
                         /\ UNCHANGED waited
                    ELSE /\ pc' = "wait"
                         /\ waited' = waited \cup {getInterval}
                         /\ UNCHANGED gres
            ELSE /\ gres' = [result |-> Nil, err |-> out]
                 /\ pc' = "returned"
                 /\ UNCHANGED <<attempt, waited>>
       ELSE IF out.Body = Garbage
            THEN /\ gres' = [result |-> Nil,
                             err |-> SDKError("unknown_error", "failed to parse result response")]
                 /\ pc' = "returned"
                 /\ UNCHANGED <<attempt, waited>>
            ELSE LET result == FormatResult(out.Body)
                 IN IF StillPending(result)
                    THEN /\ attempt' = attempt + 1
                         /\ IF attempt + 1 >= maxAttempts
                            THEN /\ gres' = [result |-> result, err |-> Nil]
                                 /\ pc' = "returned"
                                 /\ UNCHANGED waited
                            ELSE /\ pc' = "wait"
                                 /\ waited' = waited \cup {getInterval}
                                 /\ UNCHANGED gres
                    ELSE /\ gres' = [result |-> result, err |-> Nil]
                         /\ pc' = "returned"
                         /\ UNCHANGED <<attempt, waited>>
    /\ UNCHANGED <<ctxErr, pollVars, maxAttempts, getInterval, ret, emitted, fetches, opts,
                   cancelledAt, dispVars, fmtVars, upVars>>

\* Mutant: a not_found failure does not consume an attempt.
GetReturn_NotFoundFree(out) ==
    /\ pc = "inflight"
    /\ lastOut' = out
    /\ priorAnalyzing' = (priorAnalyzing /\ (lastOut = Nil \/ IsAnalyzingPayload(lastOut)))
    /\ IF out.type = "SDKError"
       THEN IF IsNotFound(out)
            THEN /\ attempt' = attempt
                 /\ IF attempt + 1 >= maxAttempts
                    THEN /\ gres' = [result |-> Nil, err |-> out]
                         /\ pc' = "returned"
                         /\ UNCHANGED waited
                    ELSE /\ pc' = "wait"
                         /\ waited' = waited \cup {getInterval}
                         /\ UNCHANGED gres
            ELSE /\ gres' = [result |-> Nil, err |-> out]
                 /\ pc' = "returned"
                 /\ UNCHANGED <<attempt, waited>>
       ELSE IF out.Body = Garbage
            THEN /\ gres' = [result |-> Nil,
                             err |-> SDKError("unknown_error", "failed to parse result response")]
                 /\ pc' = "returned"
                 /\ UNCHANGED <<attempt, waited>>
            ELSE LET result == FormatResult(out.Body)
                 IN IF StillPending(result)
                    THEN /\ attempt' = attempt + 1
                         /\ IF attempt + 1 >= maxAttempts
                            THEN /\ gres' = [result |-> result, err |-> Nil]
                                 /\ pc' = "returned"
                                 /\ UNCHANGED waited
                            ELSE /\ pc' = "wait"
                                 /\ waited' = waited \cup {getInterval}
                                 /\ UNCHANGED gres
                    ELSE /\ gres' = [result |-> result, err |-> Nil]
                         /\ pc' = "returned"
                         /\ UNCHANGED <<attempt, waited>>
    /\ UNCHANGED <<ctxErr, pollVars, maxAttempts, getInterval, ret, emitted, fetches, opts,
                   cancelledAt, dispVars, fmtVars, upVars>>

\* Mutant: at exhaustion a pending payload is returned only when no earlier
\* attempt failed with not_found.
GetReturn_StickyNotFound(out) ==
    /\ pc = "inflight"
    /\ lastOut' = out
    /\ priorAnalyzing' = (priorAnalyzing /\ (lastOut = Nil \/ IsAnalyzingPayload(lastOut)))
    /\ IF out.type = "SDKError"
       THEN IF IsNotFound(out)
            THEN /\ attempt' = attempt + 1
                 /\ IF attempt + 1 >= maxAttempts
                    THEN /\ gres' = [result |-> Nil, err |-> out]
                         /\ pc' = "returned"
                         /\ UNCHANGED waited
                    ELSE /\ pc' = "wait"
                         /\ waited' = waited \cup {getInterval}
                         /\ UNCHANGED gres
            ELSE /\ gres' = [result |-> Nil, err |-> out]
                 /\ pc' = "returned"
                 /\ UNCHANGED <<attempt, waited>>
       ELSE IF out.Body = Garbage
            THEN /\ gres' = [result |-> Nil,
                             err |-> SDKError("unknown_error", "failed to parse result response")]
                 /\ pc' = "returned"
                 /\ UNCHANGED <<attempt, waited>>
            ELSE LET result == FormatResult(out.Body)
                 IN IF StillPending(result)
                    THEN /\ attempt' = attempt + 1
                         /\ IF attempt + 1 >= maxAttempts
                            THEN /\ gres' = IF "not_found" \in kinds
                                            THEN [result |-> Nil,
                                                  err |-> SDKError("not_found",
                                                                   "Resource not found")]
                                            ELSE [result |-> result, err |-> Nil]
                                 /\ pc' = "returned"
                                 /\ UNCHANGED waited
                            ELSE /\ pc' = "wait"
                                 /\ waited' = waited \cup {getInterval}
                                 /\ UNCHANGED gres
                    ELSE /\ gres' = [result |-> result, err |-> Nil]
                         /\ pc' = "returned"
                         /\ UNCHANGED <<attempt, waited>>
    /\ UNCHANGED <<ctxErr, pollVars, maxAttempts, getInterval, ret, emitted, fetches, opts,
                   cancelledAt, dispVars, fmtVars, upVars>>

\* client.get returns `out`; the rest of the loop body up to the wait or
\* the return.
GetReturn(out) ==
    /\ pc = "inflight"
    /\ lastOut' = out
    /\ priorAnalyzing' = (priorAnalyzing /\ (lastOut = Nil \/ IsAnalyzingPayload(lastOut)))
    /\ IF out.type = "SDKError"
       THEN IF IsNotFound(out)
            THEN /\ attempt' = attempt + 1
                 /\ IF attempt + 1 >= maxAttempts
                    THEN /\ gres' = [result |-> Nil, err |-> out]
                         /\ pc' = "returned"
                         /\ UNCHANGED waited
                    ELSE /\ pc' = "wait"
                         /\ waited' = waited \cup {getInterval}
                         /\ UNCHANGED gres
            ELSE /\ gres' = [result |-> Nil, err |-> out]
                 /\ pc' = "returned"
                 /\ UNCHANGED <<attempt, waited>>
       ELSE IF out.Body = Garbage
            THEN /\ gres' = [result |-> Nil,
                             err |-> SDKError("unknown_error", "failed to parse result response")]
                 /\ pc' = "returned"
                 /\ UNCHANGED <<attempt, waited>>
            ELSE LET result == FormatResult(out.Body)
                 IN IF StillPending(result)
                    THEN /\ attempt' = attempt + 1
                         /\ IF attempt + 1 >= maxAttempts
                            THEN /\ gres' = [result |-> result, err |-> Nil]
                                 /\ pc' = "returned"
                                 /\ UNCHANGED waited
                            ELSE /\ pc' = "wait"
                                 /\ waited' = waited \cup {getInterval}
                                 /\ UNCHANGED gres
                    ELSE /\ gres' = [result |-> result, err |-> Nil]
                         /\ pc' = "returned"
                         /\ UNCHANGED <<attempt, waited>>
    /\ UNCHANGED <<ctxErr, pollVars, maxAttempts, getInterval, ret, emitted, fetches, opts,
                   cancelledAt, dispVars, fmtVars, upVars>>

\* client.get returns one of the outcomes the transport can produce (inside
\* a PollForResults call).
Fetch == \E out \in GetOutcomes(ctxErr) : GetReturn(out) /\ UNCHANGED kinds

\* Mutant: the wait runs to its end whatever the context says.
WaitElapsed_IgnoresCtx ==
    /\ pc = "wait"
    /\ pc' = "get"
    /\ UNCHANGED <<ctxErr, pollVars, getVars, ret, emitted, histVars, waited>>

\* "case <-time.After(...): continue"
WaitElapsed ==
    /\ pc = "wait"
    /\ ctxErr = Nil
    /\ pc' = "get"
    /\ UNCHANGED <<ctxErr, pollVars, getVars, ret, emitted, histVars, waited>>

\* Mutant: the cancelled wait reports the cancellation as an "error" event.
WaitCancelled_Emits ==
    /\ pc = "wait"
    /\ ctxErr # Nil
    /\ gres' = [result |-> Nil, err |-> ctxErr]
    /\ emitted' = emit(emitted, "error", ctxErr)
    /\ pc' = "returned"
    /\ UNCHANGED <<ctxErr, pollVars, maxAttempts, getInterval, attempt, ret,
                   histVars, waited>>

\* "case <-ctx.Done(): return nil, ctx.Err()"
WaitCancelled ==
    /\ pc = "wait"
    /\ ctxErr # Nil
    /\ gres' = [result |-> Nil, err |-> ctxErr]
    /\ pc' = "returned"
    /\ UNCHANGED <<ctxErr, pollVars, maxAttempts, getInterval, attempt, ret, emitted,
                   histVars, waited>>

(***************************************************************************)
(* pollForResults after GetResult has returned                             *)
(***************************************************************************)
\* Mutant: not_found is handled like any other error.
HandleNotFound_Fatal ==
    /\ pc = "returned"
    /\ gres.err # Nil
    /\ IsNotFound(gres.err)
    /\ isCompleted' = TRUE
    /\ emitted' = emit(emitted, "error", gres.err)
    /\ ret' = gres.err
    /\ pc' = "done"
    /\ UNCHANGED <<ctxErr, pollingInterval, timeout, elapsed, getVars, histVars, waited>>

\* err is a not_found SDKError: "elapsed += pollingInterval; time.Sleep; continue"
HandleNotFound ==
    /\ pc = "returned"
    /\ gres.err # Nil
    /\ IsNotFound(gres.err)
    /\ elapsed' = elapsed + pollingInterval
    /\ waited' = waited \cup {pollingInterval}
    /\ pc' = "sleep"
    /\ UNCHANGED <<ctxErr, pollingInterval, timeout, isCompleted, getVars, ret, emitted,
                   histVars>>

\* Mutant: the error is returned without being emitted.
HandleError_NoEmit ==
    /\ pc = "returned"
    /\ gres.err # Nil
    /\ ~IsNotFound(gres.err)
    /\ isCompleted' = TRUE
    /\ ret' = gres.err
    /\ pc' = "done"
    /\ UNCHANGED <<ctxErr, pollingInterval, timeout, elapsed, getVars, emitted, histVars, waited>>

\* Any other error: "isCompleted = true; c.emit("error", err); return err"
HandleError ==
    /\ pc = "returned"
    /\ gres.err # Nil
    /\ ~IsNotFound(gres.err)
    /\ isCompleted' = TRUE
    /\ emitted' = emit(emitted, "error", gres.err)
    /\ ret' = gres.err
    /\ pc' = "done"
    /\ UNCHANGED <<ctxErr, pollingInterval, timeout, elapsed, getVars, histVars, waited>>

\* "if result.Status == "ANALYZING" { elapsed += pollingInterval; time.Sleep }"
HandleAnalyzing ==
    /\ pc = "returned"
    /\ gres.err = Nil
    /\ gres.result.Status = "ANALYZING"
    /\ elapsed' = elapsed + pollingInterval
    /\ waited' = waited \cup {pollingInterval}
    /\ pc' = "sleep"
    /\ UNCHANGED <<ctxErr, pollingInterval, timeout, isCompleted, getVars, ret, emitted,
                   histVars>>

\* Mutant: isCompleted is not set after the "result" emission.
HandleFinal_NoComplete ==
    /\ pc = "returned"
    /\ gres.err = Nil
    /\ gres.result.Status # "ANALYZING"
    /\ emitted' = emit(emitted, "result", gres.result)
    /\ pc' = "loop"
    /\ UNCHANGED <<ctxErr, pollVars, getVars, ret, histVars, waited>>

\* Mutant: the final result is emitted under the wrong event name.
HandleFinal_WrongEvent ==
    /\ pc = "returned"
    /\ gres.err = Nil
    /\ gres.result.Status # "ANALYZING"
    /\ isCompleted' = TRUE
    /\ emitted' = emit(emitted, "error", gres.result)
    /\ pc' = "loop"
    /\ UNCHANGED <<ctxErr, pollingInterval, timeout, elapsed, getVars, ret, histVars, waited>>

\* Mutant: the result is emitted whatever its status.
HandleFinal_AnyStatus ==
    /\ pc = "returned"
    /\ gres.err = Nil
    /\ isCompleted' = TRUE
    /\ emitted' = emit(emitted, "result", gres.result)
    /\ pc' = "loop"
    /\ UNCHANGED <<ctxErr, pollingInterval, timeout, elapsed, getVars, ret, histVars, waited>>

\* Mutant: a final result adds a polling interval to elapsed too.
HandleFinal_CountsElapsed ==
    /\ pc = "returned"
    /\ gres.err = Nil
    /\ gres.result.Status # "ANALYZING"
    /\ isCompleted' = TRUE
    /\ elapsed' = elapsed + pollingInterval
    /\ emitted' = emit(emitted, "result", gres.result)
    /\ pc' = "loop"
    /\ UNCHANGED <<ctxErr, pollingInterval, timeout, getVars, ret, histVars, waited>>

\* "else { isCompleted = true; c.emit("result", result) }"
HandleFinal ==
    /\ pc = "returned"
    /\ gres.err = Nil
    /\ gres.result.Status # "ANALYZING"
    /\ isCompleted' = TRUE
    /\ emitted' = emit(emitted, "result", gres.result)
    /\ pc' = "loop"
    /\ UNCHANGED <<ctxErr, pollingInterval, timeout, elapsed, getVars, ret, histVars, waited>>

\* time.Sleep returns (it does not watch the context).
SleepElapsed ==
    /\ pc = "sleep"
    /\ pc' = "loop"
    /\ UNCHANGED <<ctxErr, pollVars, getVars, ret, emitted, histVars, waited>>

(***************************************************************************)
(* The caller's context                                                    *)
(***************************************************************************)
\* cancel() is called or the deadline passes, at any moment of the call.
Cancel ==
    /\ pc # "done"
    /\ ctxErr = Nil
    /\ \E e \in CtxErrors : ctxErr' = CtxError(e)
    /\ cancelledAt' = pc
    /\ UNCHANGED <<pc, pollVars, getVars, ret, emitted, fetches, lastOut, priorAnalyzing,
                   opts, kinds, waited, dispVars, fmtVars, upVars>>

(***************************************************************************)
(* Client.GetResult called directly                                        *)
(***************************************************************************)
\* *GetResultOptions values: nil or a struct.
GetResultOptionsValues ==
    {Nil} \cup {[type |-> "GetResultOptions", MaxAttempts |-> n, PollingInterval |-> i] :
                    n \in (-1)..MaxAttemptsOpt, i \in (-1)..MaxInterval}

\* Mutant: the options are taken as given, without the defaults.
GetResult_NoDefaults(options) ==
    /\ pc = "idle"
    /\ LET o == IF options = Nil
                THEN [type |-> "GetResultOptions", MaxAttempts |-> 0, PollingInterval |-> 0]
                ELSE options
       IN /\ maxAttempts' = o.MaxAttempts
          /\ getInterval' = o.PollingInterval
    /\ attempt' = 0
    /\ gres' = Nil
    /\ pc' = "get"
    /\ UNCHANGED <<ctxErr, pollVars, ret, emitted, histVars, waited>>

\* Client.GetResult: nil options become &GetResultOptions{}; then
\* getDetectionResult up to its loop, with its defaults.
GetResult(options) ==
    /\ pc = "idle"
    /\ LET o == IF options = Nil
                THEN [type |-> "GetResultOptions", MaxAttempts |-> 0, PollingInterval |-> 0]
                ELSE options
       IN /\ maxAttempts' = IF o.MaxAttempts <= 0 THEN defaultMaxAttempts ELSE o.MaxAttempts
          /\ getInterval' = IF o.PollingInterval <= 0 THEN DefaultPollingInterval
                            ELSE o.PollingInterval
    /\ attempt' = 0
    /\ gres' = Nil
    /\ pc' = "get"
    /\ UNCHANGED <<ctxErr, pollVars, ret, emitted, histVars, waited>>

\* Payloads, responses and outcomes of the status endpoint with up to
\* MaxModelsA per-model entries.
ModelListsA == UNION {[1..n -> ModelStatuses] : n \in 0..MaxModelsA}

MediaResponsesA ==
    {[type |-> "MediaResponse", RequestID |-> "test-request-id", Status |-> s,
      FinalScore |-> RawScore(s), Models |-> RawModels(ms)] :
        s \in OverallStatuses, ms \in ModelListsA}

HttpResponsesA ==
    {[StatusCode |-> 200, Body |-> b] : b \in MediaResponsesA \cup {Garbage}}
    \cup {[StatusCode |-> c, Body |-> Nil] : c \in {400, 401, 404, 500}}

GetOutcomesA(cerr) ==
    IF cerr = Nil THEN {handleResponse(r) : r \in HttpResponsesA}
    ELSE RequestFailed(cerr.Message)

\* The still-pending condition on a formatted result: overall status
\* ANALYZING, or all models ANALYZING / NOT_APPLICABLE with one ANALYZING.
IsPending(result) ==
    \/ result.Status = "ANALYZING"
    \/ /\ \A i \in DOMAIN result.Models :
              result.Models[i].Status \in {"ANALYZING", "NOT_APPLICABLE"}
       /\ \E i \in DOMAIN result.Models : result.Models[i].Status = "ANALYZING"

\* What an outcome of client.get is to getDetectionResult: a not_found
\* failure, another failure (an unparseable body included), a still-pending
\* payload or a final payload.
Kind(out) ==
    IF out.type = "SDKError"
    THEN (IF out.Code = "not_found" THEN "not_found" ELSE "error")
    ELSE IF out.Body = Garbage THEN "error"
    ELSE IF IsPending(FormatResult(out.Body)) THEN "pending"
    ELSE "final"

\* client.get returns one of the outcomes the transport can produce (inside
\* a direct GetResult call).
FetchA ==
    \E out \in GetOutcomesA(ctxErr) : GetReturn(out) /\ kinds' = kinds \cup {Kind(out)}

\* A direct GetResult call: pc = "returned" is the return to the caller.
NextA ==
    \/ \E options \in GetResultOptionsValues : GetResult(options)
    \/ GetIssue
    \/ FetchA
    \/ WaitElapsed
    \/ WaitCancelled
    \/ Cancel

SpecA == Init /\ [][NextA]_vars

(***************************************************************************)
(* Client.On, Client.emit and concurrent polls on one client               *)
(***************************************************************************)
\* Every variable of a single sequential call.
seqVars == <<pc, ctxErr, pollVars, getVars, ret, emitted, waited,
             fetches, lastOut, priorAnalyzing, opts, kinds, cancelledAt>>

EventNames == {"result", "error"}

\* An EventHandler value: the k-th handler goroutine `owner` registers, for
\* `event`; `registers` tells whether its body calls c.On itself.
Handler(owner, k, event, registers) ==
    [type |-> "handler", owner |-> owner, k |-> k, event |-> event, registers |-> registers]

\* The handler that the body of a registering handler passes to c.On.
NestedHandler(h) == Handler(h.owner, 0, h.event, FALSE)

\* *PollOptions values of the concurrent polls.
PollOptionsD ==
    {[type |-> "PollOptions", PollingInterval |-> 1, Timeout |-> t] : t \in 1..MaxTimeoutD}

\* What c.GetResult(ctx, requestID, nil) can return to the poll of goroutine g
\* (its request ID is g): a pending or a final result, or an error.
GetResultReturnsD(g) ==
    {[result |-> FormatResult([type |-> "MediaResponse", RequestID |-> g, Status |-> st,
                                FinalScore |-> RawScore(st), Models |-> <<>>]),
      err |-> Nil] : st \in {"ANALYZING", "FAKE"}}
    \cup {[result |-> Nil, err |-> e] :
            e \in {SDKError("not_found", "Resource not found"),
                   SDKError("server_error", "Server error")}}

\* gor with the locals of g replaced.
SetGor(g, locals) == [gor EXCEPT ![g] = locals]

\* Number of On calls made so far from outside a handler.
RECURSIVE SumOns(_)
SumOns(gs) ==
    IF gs = {} THEN 0
    ELSE LET g == CHOOSE x \in gs : TRUE IN gor[g].ons + SumOns(gs \ {g})

\* c.On(event, handler) is called by goroutine g, outside any handler.
On(g, event, registers) ==
    /\ gor[g].pc = "idle"
    /\ SumOns(Goroutines) < MaxOns
    /\ gor' = SetGor(g, [gor[g] EXCEPT !.pc = "on_lock",
                                       !.ons = @ + 1,
                                       !.event = event,
                                       !.handler = Handler(g, gor[g].ons + 1, event, registers),
                                       !.inHandler = FALSE])
    /\ UNCHANGED <<seqVars, handlers, eventsMutex, fmtVars, upVars>>

\* Mutant: Lock does not exclude another writer.
OnLock_NoExclusion(g) ==
    /\ gor[g].pc = "on_lock"
    /\ eventsMutex' = [eventsMutex EXCEPT !.writers = @ \cup {g}]
    /\ gor' = SetGor(g, [gor[g] EXCEPT !.pc = "on_wait"])
    /\ UNCHANGED <<seqVars, handlers, fmtVars, upVars>>

\* "c.eventsMutex.Lock()", first half: the writer excludes other writers and
\* announces itself, which keeps new readers out.
OnLock(g) ==
    /\ gor[g].pc = "on_lock"
    /\ eventsMutex.writers = {}
    /\ eventsMutex' = [eventsMutex EXCEPT !.writers = @ \cup {g}]
    /\ gor' = SetGor(g, [gor[g] EXCEPT !.pc = "on_wait"])
    /\ UNCHANGED <<seqVars, handlers, fmtVars, upVars>>

\* "c.eventsMutex.Lock()", second half: the writer waits until the readers
\* have left.
OnLockAcquired(g) ==
    /\ gor[g].pc = "on_wait"
    /\ eventsMutex.readers = {}
    /\ gor' = SetGor(g, [gor[g] EXCEPT !.pc = "on_load"])
    /\ UNCHANGED <<seqVars, handlers, eventsMutex, fmtVars, upVars>>

\* "if _, exists := c.handlers[event]; !exists { c.handlers[event] = ... }"
\* and the read of c.handlers[event] for append.
OnLoad(g) ==
    /\ gor[g].pc = "on_load"
    /\ LET e == gor[g].event
           created == IF e \in DOMAIN handlers THEN handlers
                      ELSE [x \in DOMAIN handlers \cup {e} |->
                                IF x = e THEN <<>> ELSE handlers[x]]
       IN /\ handlers' = created
          /\ gor' = SetGor(g, [gor[g] EXCEPT !.pc = "on_store", !.tmp = created[e]])
    /\ UNCHANGED <<seqVars, eventsMutex, fmtVars, upVars>>

\* "c.handlers[event] = append(c.handlers[event], handler)": the store.
OnStore(g) ==
    /\ gor[g].pc = "on_store"
    /\ handlers' = [handlers EXCEPT ![gor[g].event] = Append(gor[g].tmp, gor[g].handler)]
    /\ gor' = SetGor(g, [gor[g] EXCEPT !.pc = "on_unlock"])
    /\ UNCHANGED <<seqVars, eventsMutex, fmtVars, upVars>>

\* "defer c.eventsMutex.Unlock()" and the return of On: to the caller, or to
\* the handler that called it and from there to the loop of emit.
OnUnlock(g) ==
    /\ gor[g].pc = "on_unlock"
    /\ eventsMutex' = [eventsMutex EXCEPT !.writers = @ \ {g}]
    /\ gor' = SetGor(g, [gor[g] EXCEPT
                            !.pc = IF gor[g].inHandler THEN "emit_call" ELSE "idle",
                            !.inHandler = FALSE,
                            !.registered = Append(@, gor[g].handler)])
    /\ UNCHANGED <<seqVars, handlers, fmtVars, upVars>>

\* The locals of g at the start of c.emit(event, data); `after` is where g
\* goes on when emit has returned.
StartEmit(locals, event, data, after) ==
    [locals EXCEPT !.pc = "emit_rlock", !.ev = event, !.data = data, !.after = after,
                   !.emits = Append(@, [event |-> event, data |-> data])]

\* What pollForResults passes to emit under each event name (a final result
\* of the request of g, or an error).
EmitPayload(g, event) ==
    IF event = "result"
    THEN FormatResult([type |-> "MediaResponse", RequestID |-> g, Status |-> "FAKE",
                       FinalScore |-> RawScore("FAKE"), Models |-> <<>>])
    ELSE TimeoutError

\* c.emit(event, data) is called by goroutine g (by a poll that has reached
\* its emission).
EmitStart(g, event) ==
    /\ gor[g].pc = "idle"
    /\ gor' = SetGor(g, StartEmit(gor[g], event, EmitPayload(g, event), "done"))
    /\ UNCHANGED <<seqVars, handlers, eventsMutex, fmtVars, upVars>>

\* c.PollForResults(ctx, g, options) is called by goroutine g.
PollStart(g, options) ==
    /\ gor[g].pc = "idle"
    /\ gor' = SetGor(g, [gor[g] EXCEPT
            !.pc = "loop",
            !.pollingInterval = IF options # Nil /\ options.PollingInterval > 0
                                THEN options.PollingInterval ELSE DefaultPollingInterval,
            !.timeout = IF options # Nil /\ options.Timeout > 0
                        THEN options.Timeout ELSE DefaultTimeout,
            !.elapsed = 0,
            !.isCompleted = FALSE])
    /\ UNCHANGED <<seqVars, handlers, eventsMutex, fmtVars, upVars>>

\* The loop condition of pollForResults is false: "return nil" after a final
\* result, or the timeout error, emitted and then returned.
PollLoopExit(g) ==
    /\ gor[g].pc = "loop"
    /\ ~(~gor[g].isCompleted /\ gor[g].elapsed < gor[g].timeout)
    /\ IF ~gor[g].isCompleted /\ gor[g].elapsed >= gor[g].timeout
       THEN gor' = SetGor(g, StartEmit([gor[g] EXCEPT !.ret = TimeoutError],
                                       "error", TimeoutError, "done"))
       ELSE gor' = SetGor(g, [gor[g] EXCEPT !.pc = "done", !.ret = Nil])
    /\ UNCHANGED <<seqVars, handlers, eventsMutex, fmtVars, upVars>>

\* "case <-ctx.Done(): return ctx.Err()": the context of this call is done
\* when the loop looks at it.
PollCancelled(g) ==
    /\ gor[g].pc = "loop"
    /\ ~gor[g].isCompleted /\ gor[g].elapsed < gor[g].timeout
    /\ LET e == "context canceled"
       IN gor' = SetGor(g, [gor[g] EXCEPT !.pc = "done", !.ret = CtxError(e),
                                          !.outs = Append(@, [from |-> "ctx", result |-> Nil,
                                                             err |-> CtxError(e)])])
    /\ UNCHANGED <<seqVars, handlers, eventsMutex, fmtVars, upVars>>

\* Mutant: elapsed is kept in the client, shared by all the polls.
PollGetResult_SharedElapsed(g, out) ==
    /\ gor[g].pc = "loop"
    /\ ~gor[g].isCompleted /\ gor[g].elapsed < gor[g].timeout
    /\ LET heard == [gor[g] EXCEPT !.outs = Append(@, [from |-> "GetResult",
                                                    result |-> out.result, err |-> out.err])]
       IN IF out.err # Nil
          THEN IF IsNotFound(out.err)
               THEN gor' = [h \in Goroutines |->
                        IF h = g THEN [heard EXCEPT !.elapsed = @ + gor[g].pollingInterval]
                        ELSE [gor[h] EXCEPT !.elapsed = @ + gor[g].pollingInterval]]
               ELSE gor' = SetGor(g, StartEmit([heard EXCEPT !.isCompleted = TRUE,
                                                             !.ret = out.err],
                                               "error", out.err, "done"))
          ELSE IF out.result.Status = "ANALYZING"
               THEN gor' = [h \in Goroutines |->
                        IF h = g THEN [heard EXCEPT !.elapsed = @ + gor[g].pollingInterval]
                        ELSE [gor[h] EXCEPT !.elapsed = @ + gor[g].pollingInterval]]
               ELSE gor' = SetGor(g, StartEmit([heard EXCEPT !.isCompleted = TRUE],
                                               "result", out.result, "loop"))
    /\ UNCHANGED <<seqVars, handlers, eventsMutex, fmtVars, upVars>>

\* "default:" c.GetResult returns `out`, and the loop body handles it: sleep
\* and go on after not_found or ANALYZING, emit "error" and return the error,
\* or emit "result".
PollGetResult(g, out) ==
    /\ gor[g].pc = "loop"
    /\ ~gor[g].isCompleted /\ gor[g].elapsed < gor[g].timeout
    /\ LET heard == [gor[g] EXCEPT !.outs = Append(@, [from |-> "GetResult",
                                                    result |-> out.result, err |-> out.err])]
       IN IF out.err # Nil
          THEN IF IsNotFound(out.err)
               THEN gor' = SetGor(g, [heard EXCEPT !.elapsed = @ + gor[g].pollingInterval])
               ELSE gor' = SetGor(g, StartEmit([heard EXCEPT !.isCompleted = TRUE,
                                                             !.ret = out.err],
                                               "error", out.err, "done"))
          ELSE IF out.result.Status = "ANALYZING"
               THEN gor' = SetGor(g, [heard EXCEPT !.elapsed = @ + gor[g].pollingInterval])
               ELSE gor' = SetGor(g, StartEmit([heard EXCEPT !.isCompleted = TRUE],
                                               "result", out.result, "loop"))
    /\ UNCHANGED <<seqVars, handlers, eventsMutex, fmtVars, upVars>>

\* Mutant: RLock does not wait for the writer.
EmitRLock_NoExclusion(g) ==
    /\ gor[g].pc = "emit_rlock"
    /\ eventsMutex' = [eventsMutex EXCEPT !.readers = @ \cup {g}]
    /\ gor' = SetGor(g, [gor[g] EXCEPT !.pc = "emit_lookup"])
    /\ UNCHANGED <<seqVars, handlers, fmtVars, upVars>>

\* "c.eventsMutex.RLock()": granted when no writer holds or awaits the lock.
EmitRLock(g) ==
    /\ gor[g].pc = "emit_rlock"
    /\ eventsMutex.writers = {}
    /\ eventsMutex' = [eventsMutex EXCEPT !.readers = @ \cup {g}]
    /\ gor' = SetGor(g, [gor[g] EXCEPT !.pc = "emit_lookup"])
    /\ UNCHANGED <<seqVars, handlers, fmtVars, upVars>>

\* Mutant: the lookup takes the handlers of every event name.
EmitLookup_AllEvents(g) ==
    /\ gor[g].pc = "emit_lookup"
    /\ LET all == IF "result" \in DOMAIN handlers /\ "error" \in DOMAIN handlers
                  THEN handlers["result"] \o handlers["error"]
                  ELSE IF gor[g].ev \in DOMAIN handlers THEN handlers[gor[g].ev] ELSE <<>>
       IN gor' = SetGor(g, [gor[g] EXCEPT !.pc = "emit_call", !.hs = all, !.i = 1])
    /\ UNCHANGED <<seqVars, handlers, eventsMutex, fmtVars, upVars>>

\* "handlers, exists := c.handlers[event]; if !exists { return }"
EmitLookup(g) ==
    /\ gor[g].pc = "emit_lookup"
    /\ IF gor[g].ev \in DOMAIN handlers
       THEN gor' = SetGor(g, [gor[g] EXCEPT !.pc = "emit_call",
                                            !.hs = handlers[gor[g].ev], !.i = 1])
       ELSE gor' = SetGor(g, [gor[g] EXCEPT !.pc = "emit_unlock", !.hs = <<>>, !.i = 1])
    /\ UNCHANGED <<seqVars, handlers, eventsMutex, fmtVars, upVars>>

\* Mutant: the handlers are invoked last registered first.
EmitCall_Reversed(g) ==
    /\ gor[g].pc = "emit_call"
    /\ LET n == Len(gor[g].hs)
           i == gor[g].i
       IN IF i <= n
          THEN gor' = SetGor(g, [gor[g] EXCEPT
                    !.i = i + 1,
                    !.calls = Append(@, [event |-> gor[g].ev, handler |-> gor[g].hs[n + 1 - i],
                                         data |-> gor[g].data])])
          ELSE gor' = SetGor(g, [gor[g] EXCEPT !.pc = "emit_unlock"])
    /\ UNCHANGED <<seqVars, handlers, eventsMutex, fmtVars, upVars>>

\* "for _, handler := range handlers { handler(data) }": one iteration (the
\* handler runs; a registering handler calls c.On from its body), or the end
\* of the loop.
EmitCall(g) ==
    /\ gor[g].pc = "emit_call"
    /\ LET i == gor[g].i
       IN IF i <= Len(gor[g].hs)
          THEN LET h == gor[g].hs[i]
                   called == [gor[g] EXCEPT
                                !.i = i + 1,
                                !.calls = Append(@, [event |-> gor[g].ev, handler |-> h,
                                                     data |-> gor[g].data])]
               IN IF h.registers
                  THEN gor' = SetGor(g, [called EXCEPT !.pc = "on_lock",
                                                       !.event = h.event,
                                                       !.handler = NestedHandler(h),
                                                       !.inHandler = TRUE])
                  ELSE gor' = SetGor(g, called)
          ELSE gor' = SetGor(g, [gor[g] EXCEPT !.pc = "emit_unlock"])
    /\ UNCHANGED <<seqVars, handlers, eventsMutex, fmtVars, upVars>>

\* "defer c.eventsMutex.RUnlock()" and the return of emit.
EmitRUnlock(g) ==
    /\ gor[g].pc = "emit_unlock"
    /\ eventsMutex' = [eventsMutex EXCEPT !.readers = @ \ {g}]
    /\ gor' = SetGor(g, [gor[g] EXCEPT !.pc = gor[g].after])
    /\ UNCHANGED <<seqVars, handlers, fmtVars, upVars>>

(***************************************************************************)
(* FormatResult on arbitrary payloads                                      *)
(***************************************************************************)
\* Raw status strings: the documented ones, the label FormatResult produces,
\* and vendor values it does not know.
StatusesF == {"FAKE", "ANALYZING", "NOT_APPLICABLE", "ERROR", "AUTHENTIC",
              "MANIPULATED", "fake"}

\* Raw *float64 scores: absent, below 0, on the 0-1 scale, on the 0-100
\* scale, and above 100.
ScoresF == {Nil, Score(-1, 2), Score(0, 1), Score(1, 2), Score(1, 1),
            Score(3, 2), Score(50, 1), Score(100, 1), Score(101, 1)}

\* The models of a payload: up to MaxModelsF entries, any status and score.
ModelsF ==
    UNION {[1..n -> {[Name |-> "m", Status |-> st, FinalScore |-> sc] :
                        st \in StatusesF, sc \in ScoresF}] : n \in 0..MaxModelsF}

\* *MediaResponse arguments of FormatResult.
MediaResponsesF ==
    {[type |-> "MediaResponse", RequestID |-> "test-request-id", Status |-> st,
      FinalScore |-> sc, Models |-> ms] :
        st \in StatusesF, sc \in ScoresF, ms \in ModelsF}

\* A payload has arrived and FormatResult has not been called on it yet.
InitF ==
    /\ InitClient
    /\ fmtIn \in MediaResponsesF
    /\ fmtOut = Nil

\* FormatResult(response) is called on the payload and returns.
FormatCall ==
    /\ fmtOut = Nil
    /\ fmtOut' = FormatResult(fmtIn)
    /\ UNCHANGED <<seqVars, dispVars, fmtIn, upVars>>

NextF == FormatCall

SpecF == InitF /\ [][NextF]_vars

(***************************************************************************)
(* Client.Upload and Client.UploadSocialMedia                              *)
(***************************************************************************)
\* UploadOptions.FilePath values.
FilePaths == {"", "notes.txt", "NOTES.TXT", "photo.jpeg", "media/clip.mp4", "song.wav",
              "tool.exe", "README"}

\* filepath.Ext(path): the suffix from the last dot of the last element.
Ext(path) ==
    CASE path = "notes.txt" -> ".txt"
      [] path = "NOTES.TXT" -> ".TXT"
      [] path = "photo.jpeg" -> ".jpeg"
      [] path = "media/clip.mp4" -> ".mp4"
      [] path = "song.wav" -> ".wav"
      [] path = "tool.exe" -> ".exe"
      [] OTHER -> ""

\* strings.ToLower on the extensions above.
ToLower(ext) == IF ext = ".TXT" THEN ".txt" ELSE ext

\* filepath.Base(path): the last element of the path.
Base(path) == IF path = "media/clip.mp4" THEN "clip.mp4" ELSE path

\* The scan of SupportedFileTypes: the size limit of an extension, 0 when no
\* type lists it.
FileSizeLimit(ext) ==
    IF ext \in {".mp4", ".mov"} THEN 262144000
    ELSE IF ext \in {".jpg", ".png", ".jpeg", ".gif", ".webp"} THEN 52428800
    ELSE IF ext \in {".flac", ".wav", ".mp3", ".m4a", ".aac", ".alac", ".ogg"} THEN 20971520
    ELSE IF ext = ".txt" THEN 5242880
    ELSE 0

\* What the file system holds at the path: whether os.Stat finds the file
\* ("ok"), reports that it does not exist, or fails otherwise; the size in
\* bytes; and whether os.ReadFile succeeds.
FileSizes == {0, 5242880, 5242881, 20971520, 20971521, 52428800, 52428801,
              262144000, 262144001}
FileStates ==
    {[stat |-> "ok", size |-> n, readable |-> r] : n \in FileSizes, r \in BOOLEAN}
    \cup {[stat |-> st, size |-> 0, readable |-> FALSE] : st \in {"not_exist", "error"}}

\* A goroutine that dereferences a nil pointer.
Panic == [type |-> "panic", Message |-> "invalid memory address or nil pointer dereference"]

\* One HTTP request.
Request(method, endpoint, payload) ==
    [method |-> method, endpoint |-> endpoint, payload |-> payload]

\* The validation of uploadFile: the error it returns (a panic when os.Stat
\* fails for another reason than a missing file, "fileInfo" being nil), or
\* Nil when the file passes.
ValidateFile(path, file) ==
    IF path = "" THEN SDKError("invalid_file", "file path is required")
    ELSE IF file.stat = "not_exist" THEN SDKError("invalid_file", "file not found: " \o path)
    ELSE IF file.stat # "ok" THEN Panic
    ELSE IF FileSizeLimit(ToLower(Ext(path))) = 0
    THEN SDKError("invalid_file", "Unsupported file type: " \o ToLower(Ext(path)))
    ELSE IF file.size > FileSizeLimit(ToLower(Ext(path)))
    THEN SDKError("file_too_large", "File too large to upload: " \o path)
    ELSE Nil

\* Mutant: the signed URL is requested before the file is looked at.
Upload_RequestFirst(options, file) ==
    /\ upc = "idle"
    /\ upIn' = [op |-> "Upload", FilePath |-> options.FilePath, file |-> file]
    /\ requests' = Append(requests, Request("POST", "/api/files/aws-presigned",
                                            Base(options.FilePath)))
    /\ LET err == ValidateFile(options.FilePath, file)
       IN IF err # Nil
          THEN upOut' = [result |-> Nil, err |-> err] /\ upc' = "returned"
          ELSE upOut' = upOut /\ upc' = "signing"
    /\ UNCHANGED <<seqVars, dispVars, fmtVars>>

\* Client.Upload, uploadFile up to the request of getSignedURL.
Upload(options, file) ==
    /\ upc = "idle"
    /\ upIn' = [op |-> "Upload", FilePath |-> options.FilePath, file |-> file]
    /\ LET err == ValidateFile(options.FilePath, file)
       IN IF err # Nil
          THEN /\ upOut' = [result |-> Nil, err |-> err]
               /\ upc' = "returned"
               /\ UNCHANGED requests
          ELSE /\ requests' = Append(requests, Request("POST", "/api/files/aws-presigned",
                                                       Base(options.FilePath)))
               /\ upc' = "signing"
               /\ UNCHANGED upOut
    /\ UNCHANGED <<seqVars, dispVars, fmtVars>>

\* Bodies of the answers to the signed URL request.
SignedURLBodies ==
    {[type |-> "SignedURLResponse", SignedURL |-> "https://bucket.example/put",
      RequestID |-> "request-1", MediaID |-> "media-1"], Garbage}

\* What one call of httpClient.post can return: the body of a 2xx answer, the
\* error of handleResponse for another status, or the error of a request
\* that could not be made.
PostOutcomes(bodies) ==
    {handleResponse([StatusCode |-> 200, Body |-> b]) : b \in bodies}
    \cup {handleResponse([StatusCode |-> c, Body |-> Nil]) : c \in {400, 401, 403, 404, 429, 500}}
    \cup {SDKError("server_error", "request failed: connection refused")}

\* What one call of httpClient.put can return: nil, or its upload_failed error.
PutOutcomes ==
    {Nil, SDKError("upload_failed", "request failed: connection refused"),
     SDKError("upload_failed", "upload failed with status code")}

\* client.post returns to getSignedURL; uploadFile goes on to
\* uploadToSignedURL, which reads the file and issues the PUT.
UploadSigned(out) ==
    /\ upc = "signing"
    /\ IF out.type = "SDKError"
       THEN /\ upOut' = [result |-> Nil, err |-> out]
            /\ upc' = "returned"
            /\ UNCHANGED requests
       ELSE IF out.Body = Garbage
       THEN /\ upOut' = [result |-> Nil,
                         err |-> SDKError("unknown_error", "failed to parse signed URL response")]
            /\ upc' = "returned"
            /\ UNCHANGED requests
       ELSE IF ~upIn.file.readable
       THEN /\ upOut' = [result |-> Nil, err |-> SDKError("invalid_file", "failed to read file")]
            /\ upc' = "returned"
            /\ UNCHANGED requests
       ELSE /\ requests' = Append(requests, Request("PUT", out.Body.SignedURL, upIn.FilePath))
            /\ upOut' = [result |-> [type |-> "UploadResult", RequestID |-> out.Body.RequestID,
                                     MediaID |-> out.Body.MediaID],
                         err |-> Nil]
            /\ upc' = "putting"
    /\ UNCHANGED <<seqVars, dispVars, fmtVars, upIn>>

\* client.put returns; uploadFile returns the error or the UploadResult.
UploadPut(err) ==
    /\ upc = "putting"
    /\ upOut' = IF err # Nil
                THEN [result |-> Nil,
                      err |-> SDKError("upload_failed",
                                       "failed to upload to signed URL: " \o err.Message)]
                ELSE upOut
    /\ upc' = "returned"
    /\ UNCHANGED <<seqVars, dispVars, fmtVars, upIn, requests>>

\* UploadSocialMediaOptions.SocialLink values.
SocialLinks == {"", "https://example.com/post/1", "HTTP://Example.com/x",
                "ftp://example.com/x", "example.com/post", "http://", "https:///path",
                "://missing-scheme", "mailto:user@example.com"}

\* url.Parse on the links above: the error, or the Scheme (in lower case)
\* and the Host of the parsed URL.
UrlParse(link) ==
    CASE link = "https://example.com/post/1" -> [err |-> Nil, Scheme |-> "https", Host |-> "example.com"]
      [] link = "HTTP://Example.com/x" -> [err |-> Nil, Scheme |-> "http", Host |-> "Example.com"]
      [] link = "ftp://example.com/x" -> [err |-> Nil, Scheme |-> "ftp", Host |-> "example.com"]
      [] link = "example.com/post" -> [err |-> Nil, Scheme |-> "", Host |-> ""]
      [] link = "http://" -> [err |-> Nil, Scheme |-> "http", Host |-> ""]
      [] link = "https:///path" -> [err |-> Nil, Scheme |-> "https", Host |-> ""]
      [] link = "mailto:user@example.com" -> [err |-> Nil, Scheme |-> "mailto", Host |-> ""]
      [] link = "://missing-scheme" ->
            [err |-> PlainError("missing protocol scheme"), Scheme |-> "", Host |-> ""]
      [] OTHER -> [err |-> Nil, Scheme |-> "", Host |-> ""]

\* The validation of uploadSocialMediaLink: the error it returns, or Nil.
ValidateLink(link) ==
    IF link = "" THEN SDKError("invalid_request", "Social media link is required")
    ELSE IF UrlParse(link).err # Nil
    THEN SDKError("invalid_request", "Invalid social media link: " \o UrlParse(link).err.Message)
    ELSE IF (UrlParse(link).Scheme # "http" /\ UrlParse(link).Scheme # "https")
             \/ UrlParse(link).Host = ""
    THEN SDKError("invalid_request", "Invalid social media link: " \o link)
    ELSE Nil

\* Mutant: the link is posted before it is validated.
UploadSocialMedia_RequestFirst(options) ==
    /\ upc = "idle"
    /\ upIn' = [op |-> "UploadSocialMedia", SocialLink |-> options.SocialLink]
    /\ requests' = Append(requests, Request("POST", "/api/files/social", options.SocialLink))
    /\ LET err == ValidateLink(options.SocialLink)
       IN IF err # Nil
          THEN upOut' = [result |-> Nil, err |-> err] /\ upc' = "returned"
          ELSE upOut' = upOut /\ upc' = "social"
    /\ UNCHANGED <<seqVars, dispVars, fmtVars>>

\* Client.UploadSocialMedia, uploadSocialMediaLink up to its POST.
UploadSocialMedia(options) ==
    /\ upc = "idle"
    /\ upIn' = [op |-> "UploadSocialMedia", SocialLink |-> options.SocialLink]
    /\ LET err == ValidateLink(options.SocialLink)
       IN IF err # Nil
          THEN /\ upOut' = [result |-> Nil, err |-> err]
               /\ upc' = "returned"
               /\ UNCHANGED requests
          ELSE /\ requests' = Append(requests, Request("POST", "/api/files/social",
                                                       options.SocialLink))
               /\ upc' = "social"
               /\ UNCHANGED upOut
    /\ UNCHANGED <<seqVars, dispVars, fmtVars>>

\* Bodies of the answers to the social media POST: with a request ID (a
\* *string), without one, and one that json.Unmarshal rejects.
SocialBodies ==
    {[type |-> "Response", RequestID |-> [type |-> "string", value |-> "request-1"]],
     [type |-> "Response", RequestID |-> Nil], Garbage}

\* Mutant: the error of the transport is returned as it is.
UploadSocialPosted_Unwrapped(out) ==
    /\ upc = "social"
    /\ upOut' = IF out.type = "SDKError" THEN [result |-> Nil, err |-> out]
                ELSE [result |-> Nil, err |-> SDKError("server_error", "Invalid response from API")]
    /\ upc' = "returned"
    /\ UNCHANGED <<seqVars, dispVars, fmtVars, upIn, requests>>

\* client.post returns to uploadSocialMediaLink, which wraps the error or
\* parses the answer.
UploadSocialPosted(out) ==
    /\ upc = "social"
    /\ upOut' =
          IF out.type = "SDKError"
          THEN [result |-> Nil,
                err |-> SDKError("upload_failed",
                                 "Social media link upload failed:: " \o out.Message)]
          ELSE IF out.Body = Garbage \/ out.Body.RequestID = Nil
          THEN [result |-> Nil, err |-> SDKError("server_error", "Invalid response from API")]
          ELSE [result |-> [type |-> "UploadResult", RequestID |-> out.Body.RequestID.value,
                            MediaID |-> ""],
                err |-> Nil]
    /\ upc' = "returned"
    /\ UNCHANGED <<seqVars, dispVars, fmtVars, upIn, requests>>

\* One upload call of either kind on a fresh client.
NextU ==
    \/ \E path \in FilePaths, file \in FileStates : Upload([FilePath |-> path], file)
    \/ \E out \in PostOutcomes(SignedURLBodies) : UploadSigned(out)
    \/ \E err \in PutOutcomes : UploadPut(err)
    \/ \E link \in SocialLinks : UploadSocialMedia([SocialLink |-> link])
    \/ \E out \in PostOutcomes(SocialBodies) : UploadSocialPosted(out)

SpecU == Init /\ [][NextU]_vars

(***************************************************************************)
(* Client.GetResults: getDetectionResults and formatResults                *)
(***************************************************************************)
\* Entries of one page: one media per overall status.
MediaEntriesL ==
    {[type |-> "MediaResponse", RequestID |-> "test-request-id", Status |-> s,
      FinalScore |-> RawScore(s), Models |-> RawModels(<<>>)] : s \in OverallStatuses}

\* The pagination fields of AllMediaResponse: an empty listing and a page
\* in the middle of a listing.
PaginationsL ==
    {[TotalItems |-> 0, TotalPages |-> 0, CurrentPage |-> 0, CurrentPageItemsCount |-> 0],
     [TotalItems |-> 25, TotalPages |-> 3, CurrentPage |-> 1, CurrentPageItemsCount |-> 10]}

\* AllMediaResponse values with up to MaxListItems entries in mediaList.
AllMediaResponses ==
    {[type |-> "AllMediaResponse", TotalItems |-> p.TotalItems, TotalPages |-> p.TotalPages,
      CurrentPage |-> p.CurrentPage, CurrentPageItemsCount |-> p.CurrentPageItemsCount,
      MediaList |-> l] :
        p \in PaginationsL, l \in UNION {[1..n -> MediaEntriesL] : n \in 0..MaxListItems}}

\* HTTP responses of the listing endpoint, and what httpClient.get makes of
\* them (or of a request whose context is done).
HttpResponsesL ==
    {[StatusCode |-> 200, Body |-> b] : b \in AllMediaResponses \cup {Garbage}}
    \cup {[StatusCode |-> c, Body |-> Nil] : c \in {400, 401, 404, 500}}

GetOutcomesL(cerr) ==
    IF cerr = Nil THEN {handleResponse(r) : r \in HttpResponsesL}
    ELSE RequestFailed(cerr.Message)

\* Mutant: the items come out in reverse order.
formatResults_Reversed(response) ==
    [type |-> "DetectionResultList",
     TotalItems |-> response.TotalItems,
     TotalPages |-> response.TotalPages,
     CurrentPage |-> response.CurrentPage,
     CurrentPageItemsCount |-> response.CurrentPageItemsCount,
     Items |-> [i \in 1..Len(response.MediaList) |->
                   FormatResult(response.MediaList[Len(response.MediaList) + 1 - i])]]

\* Mutant: TotalItems is taken from the page's item count.
formatResults_WrongCount(response) ==
    [type |-> "DetectionResultList",
     TotalItems |-> response.CurrentPageItemsCount,
     TotalPages |-> response.TotalPages,
     CurrentPage |-> response.CurrentPage,
     CurrentPageItemsCount |-> response.CurrentPageItemsCount,
     Items |-> [i \in 1..Len(response.MediaList) |-> FormatResult(response.MediaList[i])]]

\* formatResults: FormatResult of every entry, appended in the order of
\* response.MediaList, and the four pagination fields copied.
formatResults(response) ==
    [type |-> "DetectionResultList",
     TotalItems |-> response.TotalItems,
     TotalPages |-> response.TotalPages,
     CurrentPage |-> response.CurrentPage,
     CurrentPageItemsCount |-> response.CurrentPageItemsCount,
     Items |-> [i \in 1..Len(response.MediaList) |-> FormatResult(response.MediaList[i])]]

\* Client.GetResults: nil options become &GetResultOptions{}; then
\* getDetectionResults up to its loop, with its defaults.
GetResults(options) ==
    /\ pc = "idle"
    /\ LET o == IF options = Nil
                THEN [type |-> "GetResultOptions", MaxAttempts |-> 0, PollingInterval |-> 0]
                ELSE options
       IN /\ maxAttempts' = IF o.MaxAttempts <= 0 THEN defaultMaxAttempts ELSE o.MaxAttempts
          /\ getInterval' = IF o.PollingInterval <= 0 THEN DefaultPollingInterval
                            ELSE o.PollingInterval
    /\ attempt' = 0
    /\ gres' = Nil
    /\ pc' = "list_get"
    /\ UNCHANGED <<ctxErr, pollVars, ret, emitted, histVars, waited>>

\* Loop head "for attempt < maxAttempts": issue client.get, or leave the loop
\* with the "exceeded maximum number of polling attempts" error.
ListIssue ==
    /\ pc = "list_get"
    /\ IF attempt < maxAttempts
       THEN /\ fetches' = fetches + 1
            /\ pc' = "list_inflight"
            /\ UNCHANGED gres
       ELSE /\ gres' = [result |-> Nil,
                        err |-> SDKError("timeout", "exceeded maximum number of polling attempts")]
            /\ pc' = "list_returned"
            /\ UNCHANGED fetches
    /\ UNCHANGED <<ctxErr, pollVars, maxAttempts, getInterval, attempt, ret, emitted,
                   lastOut, priorAnalyzing, waited, opts, kinds, cancelledAt,
                   dispVars, fmtVars, upVars>>

\* Mutant: a page with an entry still ANALYZING is polled again.
ListReturn_PollsContent(out) ==
    /\ pc = "list_inflight"
    /\ lastOut' = out
    /\ IF out.type = "SDKError"
       THEN IF IsNotFound(out)
            THEN /\ attempt' = attempt + 1
                 /\ IF attempt + 1 >= maxAttempts
                    THEN /\ gres' = [result |-> Nil, err |-> out]
                         /\ pc' = "list_returned"
                         /\ UNCHANGED waited
                    ELSE /\ pc' = "list_wait"
                         /\ waited' = waited \cup {getInterval}
                         /\ UNCHANGED gres
            ELSE /\ gres' = [result |-> Nil, err |-> out]
                 /\ pc' = "list_returned"
                 /\ UNCHANGED <<attempt, waited>>
       ELSE IF out.Body = Garbage
            THEN /\ gres' = [result |-> Nil,
                             err |-> SDKError("unknown_error", "failed to parse result response")]
                 /\ pc' = "list_returned"
                 /\ UNCHANGED <<attempt, waited>>
            ELSE IF /\ \E i \in DOMAIN out.Body.MediaList :
                            out.Body.MediaList[i].Status = "ANALYZING"
                    /\ attempt + 1 < maxAttempts
                 THEN /\ attempt' = attempt + 1
                      /\ pc' = "list_wait"
                      /\ waited' = waited \cup {getInterval}
                      /\ UNCHANGED gres
                 ELSE /\ gres' = [result |-> formatResults(out.Body), err |-> Nil]
                      /\ pc' = "list_returned"
                      /\ UNCHANGED <<attempt, waited>>
    /\ UNCHANGED <<ctxErr, pollVars, maxAttempts, getInterval, ret, emitted, fetches,
                   priorAnalyzing, opts, kinds, cancelledAt, dispVars, fmtVars, upVars>>

\* Mutant: every SDKError is retried like not_found.
ListReturn_RetriesAnyError(out) ==
    /\ pc = "list_inflight"
    /\ lastOut' = out
    /\ IF out.type = "SDKError"
       THEN /\ attempt' = attempt + 1
            /\ IF attempt + 1 >= maxAttempts
               THEN /\ gres' = [result |-> Nil, err |-> out]
                    /\ pc' = "list_returned"
                    /\ UNCHANGED waited
               ELSE /\ pc' = "list_wait"
                    /\ waited' = waited \cup {getInterval}
                    /\ UNCHANGED gres
       ELSE IF out.Body = Garbage
            THEN /\ gres' = [result |-> Nil,
                             err |-> SDKError("unknown_error", "failed to parse result response")]
                 /\ pc' = "list_returned"
                 /\ UNCHANGED <<attempt, waited>>
            ELSE /\ gres' = [result |-> formatResults(out.Body), err |-> Nil]
                 /\ pc' = "list_returned"
                 /\ UNCHANGED <<attempt, waited>>
    /\ UNCHANGED <<ctxErr, pollVars, maxAttempts, getInterval, ret, emitted, fetches,
                   priorAnalyzing, opts, kinds, cancelledAt, dispVars, fmtVars, upVars>>

\* client.get returns `out`; the rest of the loop body up to the wait or the
\* return: not_found counts an attempt and waits (or is returned when the
\* attempts are used up), any other error is returned, an unreadable body is
\* the unknown_error parse failure, and a parsed page is formatted and
\* returned.
ListReturn(out) ==
    /\ pc = "list_inflight"
    /\ lastOut' = out
    /\ IF out.type = "SDKError"
       THEN IF IsNotFound(out)
            THEN /\ attempt' = attempt + 1
                 /\ IF attempt + 1 >= maxAttempts
                    THEN /\ gres' = [result |-> Nil, err |-> out]
                         /\ pc' = "list_returned"
                         /\ UNCHANGED waited
                    ELSE /\ pc' = "list_wait"
                         /\ waited' = waited \cup {getInterval}
                         /\ UNCHANGED gres
            ELSE /\ gres' = [result |-> Nil, err |-> out]
                 /\ pc' = "list_returned"
                 /\ UNCHANGED <<attempt, waited>>
       ELSE IF out.Body = Garbage
            THEN /\ gres' = [result |-> Nil,
                             err |-> SDKError("unknown_error", "failed to parse result response")]
                 /\ pc' = "list_returned"
                 /\ UNCHANGED <<attempt, waited>>
            ELSE /\ gres' = [result |-> formatResults(out.Body), err |-> Nil]
                 /\ pc' = "list_returned"
                 /\ UNCHANGED <<attempt, waited>>
    /\ UNCHANGED <<ctxErr, pollVars, maxAttempts, getInterval, ret, emitted, fetches,
                   priorAnalyzing, opts, kinds, cancelledAt, dispVars, fmtVars, upVars>>

\* Mutant: the wait between two listing fetches ignores the context.
ListWaitElapsed_IgnoresCtx ==
    /\ pc = "list_wait"
    /\ pc' = "list_get"
    /\ UNCHANGED <<ctxErr, pollVars, getVars, ret, emitted, histVars, waited>>

\* "case <-time.After(...): continue"
ListWaitElapsed ==
    /\ pc = "list_wait"
    /\ ctxErr = Nil
    /\ pc' = "list_get"
    /\ UNCHANGED <<ctxErr, pollVars, getVars, ret, emitted, histVars, waited>>

\* "case <-ctx.Done(): return nil, ctx.Err()"
ListWaitCancelled ==
    /\ pc = "list_wait"
    /\ ctxErr # Nil
    /\ gres' = [result |-> Nil, err |-> ctxErr]
    /\ pc' = "list_returned"
    /\ UNCHANGED <<ctxErr, pollVars, maxAttempts, getInterval, attempt, ret, emitted,
                   histVars, waited>>

\* A GetResults call: pc = "list_returned" is the return to the caller.
NextL ==
    \/ \E options \in GetResultOptionsValues : GetResults(options)
    \/ ListIssue
    \/ \E out \in GetOutcomesL(ctxErr) : ListReturn(out)
    \/ ListWaitElapsed
    \/ ListWaitCancelled
    \/ Cancel

SpecL == Init /\ [][NextL]_vars

\* One step of goroutine g, which registers handlers and emits.
StepD(g) ==
    \/ \E event \in EventNames, registers \in BOOLEAN : On(g, event, registers)
    \/ OnLock(g)
    \/ OnLockAcquired(g)
    \/ OnLoad(g)
    \/ OnStore(g)
    \/ OnUnlock(g)
    \/ \E event \in EventNames : EmitStart(g, event)
    \/ EmitRLock(g)
    \/ EmitLookup(g)
    \/ EmitCall(g)
    \/ EmitRUnlock(g)

\* Goroutines that register handlers and emit on one client, concurrently.
NextD == \E g \in Goroutines : StepD(g)

SpecD == Init /\ [][NextD]_vars

\* The Go scheduler runs every goroutine that is not blocked: a goroutine
\* whose next step stays possible takes it.
FairSpecD == SpecD /\ \A g \in Goroutines : WF_vars(StepD(g))

\* Goroutines that register plain handlers and poll on one client,
\* concurrently.
NextP ==
    \E g \in Goroutines :
        \/ \E event \in EventNames : On(g, event, FALSE)
        \/ OnLock(g)
        \/ OnLockAcquired(g)
        \/ OnLoad(g)
        \/ OnStore(g)
        \/ OnUnlock(g)
        \/ \E options \in PollOptionsD : PollStart(g, options)
        \/ PollLoopExit(g)
        \/ PollCancelled(g)
        \/ \E out \in GetResultReturnsD(g) : PollGetResult(g, out)
        \/ EmitRLock(g)
        \/ EmitLookup(g)
        \/ EmitCall(g)
        \/ EmitRUnlock(g)

SpecP == Init /\ [][NextP]_vars

Next ==
    \/ \E options \in PollOptionsValues : PollForResults(options)
    \/ LoopExitCompleted
    \/ LoopExitTimeout
    \/ LoopCancelled
    \/ LoopCallGetResult
    \/ GetIssue
    \/ Fetch
    \/ WaitElapsed
    \/ WaitCancelled
    \/ HandleNotFound
    \/ HandleError
    \/ HandleAnalyzing
    \/ HandleFinal
    \/ SleepElapsed
    \/ Cancel

Spec == Init /\ [][Next]_vars

\* A step of a call that has started: the goroutine runs, the fetch in flight
\* returns, the wait or the sleep comes to its end.
Run ==
    \/ LoopExitCompleted
    \/ LoopExitTimeout
    \/ LoopCancelled
    \/ LoopCallGetResult
    \/ GetIssue
    \/ Fetch
    \/ WaitElapsed
    \/ WaitCancelled
    \/ HandleNotFound
    \/ HandleError
    \/ HandleAnalyzing
    \/ HandleFinal
    \/ SleepElapsed

\* One PollForResults call with a short timeout, which the loop reaches
\* within the iterations explored.
NextT ==
    \/ \E t \in 1..MaxTimeoutD :
          PollForResults([type |-> "PollOptions", PollingInterval |-> 1, Timeout |-> t])
    \/ Run
    \/ Cancel

\* The goroutine of the call is scheduled, every transport fetch returns and
\* every wait elapses or is cancelled.
FairSpecT == Init /\ [][NextT]_vars /\ WF_vars(Run)

TypeOK ==
    /\ pc \in {"idle", "loop", "get", "inflight", "wait", "returned", "sleep", "done",
              "list_get", "list_inflight", "list_wait", "list_returned"}
    /\ attempt \in 0..defaultMaxAttempts
    /\ Len(emitted) <= 2

(***************************************************************************)
(* Observations used by the properties                                     *)
(***************************************************************************)
\* Number of emissions of one event name.
NumEvents(name) == Cardinality({i \in DOMAIN emitted : emitted[i].event = name})

\* The call has returned.
Returned == pc = "done"

\* Every fetch so far returned a payload whose overall status is ANALYZING.
AllAnalyzing == fetches > 0 /\ priorAnalyzing /\ IsAnalyzingPayload(lastOut)

\* The latest fetch returned a payload whose overall status is not ANALYZING.
LastIsTerminalPayload ==
    /\ lastOut.type = "bytes"
    /\ lastOut.Body # Garbage
    /\ lastOut.Body.Status # "ANALYZING"

\* ceil(a / b)
Ceil(a, b) == (a + b - 1) \div b

(***************************************************************************)
(* C1 .. C10: event-driven polling (PollForResults)                        *)
(***************************************************************************)

\* C1: in every execution of PollForResults at most one event is emitted in
\* total ("result" plus "error" emissions), and nothing is emitted once the
\* call has returned.
C1_AtMostOneEvent ==
    [][/\ NumEvents("result")' + NumEvents("error")' <= 1
       /\ Len(emitted') = NumEvents("result")' + NumEvents("error")'
       /\ (Returned => emitted' = emitted)]_vars

\* C1 witness: the call has returned after a GetResult exhausted by pending
\* payloads, a sleep, and the single (timeout) emission.
C1_Witness ==
    /\ Returned
    /\ Len(emitted) = 1
    /\ elapsed > 0
    /\ fetches >= defaultMaxAttempts

\* C2: PollForResults returns nil if and only if exactly one "result" event
\* and no "error" event was emitted; when it returns an SDKError, exactly one
\* "error" event carrying that same error and no "result" event was emitted.
C2_ReturnMatchesEvent ==
    Returned =>
        /\ (ret = Nil) <=> (NumEvents("result") = 1 /\ NumEvents("error") = 0)
        /\ (ret.type = "SDKError" =>
                emitted = <<[event |-> "error", data |-> ret]>>)

\* C2 witness: the call returned an SDKError that came from the transport.
C2_Witness ==
    /\ Returned
    /\ ret.type = "SDKError"
    /\ ret.Code = "unauthorized"
    /\ NumEvents("error") = 1

\* C3: with a transport that always returns overall status ANALYZING and no
\* cancellation, PollForResults returns the timeout error, exactly one
\* "error" event carries a timeout-coded error and no "result" event fires.
C3_TimeoutIsError ==
    (Returned /\ ctxErr = Nil /\ AllAnalyzing) =>
        /\ ret.type = "SDKError"
        /\ ret.Code = "timeout"
        /\ NumEvents("result") = 0
        /\ NumEvents("error") = 1
        /\ emitted[1].data.type = "SDKError"
        /\ emitted[1].data.Code = "timeout"

\* C3 witness: an always-ANALYZING poll that ran out its timeout.
C3_Witness ==
    /\ Returned
    /\ ctxErr = Nil
    /\ AllAnalyzing
    /\ elapsed >= timeout
    /\ ret = TimeoutError

\* C4: when the transport returns ANALYZING one or more times and then a
\* terminal status, without cancellation, PollForResults returns nil, exactly
\* one "result" event fires carrying the formatted terminal result, and no
\* "error" event fires.
C4_SuccessPath ==
    (Returned /\ ctxErr = Nil /\ fetches >= 2 /\ priorAnalyzing /\ LastIsTerminalPayload) =>
        /\ ret = Nil
        /\ emitted = <<[event |-> "result", data |-> FormatResult(lastOut.Body)]>>

\* C4 witness: ANALYZING responses, then a FAKE verdict delivered as MANIPULATED.
C4_Witness ==
    /\ Returned
    /\ ctxErr = Nil
    /\ fetches >= 2
    /\ priorAnalyzing
    /\ LastIsTerminalPayload
    /\ NumEvents("result") = 1
    /\ emitted[1].data.Status = "MANIPULATED"

\* The call ended because of the cancellation: it returned ctx.Err(), or the
\* failure of the fetch that the cancellation interrupted.
EndedByCancellation ==
    /\ Returned
    /\ ctxErr # Nil
    /\ (ret = ctxErr \/ ret \in RequestFailed(ctxErr.Message))

\* C5: when the cancellation signal fires during a PollForResults call
\* (before the first fetch, during a fetch or its retry wait, or during an
\* inter-attempt wait) and the call ends because of it, no "result" and no
\* "error" event is emitted.
C5_CancellationSilent ==
    EndedByCancellation => emitted = <<>>

\* C6 as stated: a fetch that fails with not_found ends the poll: one "error"
\* event carrying the not_found error, that error returned, no further fetch.
C6_NotFoundFatal ==
    (lastOut # Nil /\ IsNotFound(lastOut)) =>
        /\ pc \in {"returned", "done"}
        /\ (Returned => (ret = lastOut /\ emitted = <<[event |-> "error", data |-> lastOut]>>))

\* C6 amended: a not_found fetch failure is never fatal in PollForResults: no
\* event ever carries a not_found error, the call never returns one, and an
\* uncancelled call whose latest fetch failed with not_found ends only with
\* the timeout error (one "error" event, timeout-coded), after elapsed has
\* reached the timeout.
C6_NotFoundRetried ==
    /\ \A i \in DOMAIN emitted : ~IsNotFound(emitted[i].data)
    /\ (Returned => ~IsNotFound(ret))
    /\ (Returned /\ ctxErr = Nil /\ lastOut # Nil /\ IsNotFound(lastOut)) =>
            /\ ret = TimeoutError
            /\ emitted = <<[event |-> "error", data |-> TimeoutError]>>
            /\ elapsed >= timeout

\* C6 witness: the latest fetch failed with not_found and the call went on to
\* its timeout.
C6_Witness ==
    /\ Returned
    /\ ctxErr = Nil
    /\ lastOut # Nil
    /\ IsNotFound(lastOut)
    /\ ret = TimeoutError

\* The latest fetch failed with an SDKError other than timeout / not_found.
LastIsOtherError ==
    /\ lastOut.type = "SDKError"
    /\ lastOut.Code \notin {"timeout", "not_found"}

\* C7: when a fetch fails with an error code other than timeout/not_found,
\* PollForResults emits exactly one "error" event carrying that error
\* unchanged, returns that same error, and performs no further fetch.
C7_OtherErrorFatal ==
    LastIsOtherError =>
        /\ pc \in {"returned", "done"}
        /\ (pc = "returned" => gres = [result |-> Nil, err |-> lastOut])
        /\ (Returned => (ret = lastOut /\ emitted = <<[event |-> "error", data |-> lastOut]>>))

\* C7 witness: a 500 answer after earlier pending answers ended the poll.
C7_Witness ==
    /\ Returned
    /\ lastOut = SDKError("server_error", "Server error")
    /\ fetches >= 2
    /\ ret = lastOut

\* C8: each loop iteration performs exactly one fetch, so with an
\* always-ANALYZING transport and no cancellation PollForResults performs
\* exactly ceil(timeoutMs / pollingIntervalMs) fetches before timing out, each
\* separated by a wait of the caller's pollingIntervalMs.
C8_OneFetchPerIteration ==
    (Returned /\ ctxErr = Nil /\ AllAnalyzing) =>
        /\ fetches = Ceil(timeout, pollingInterval)
        /\ waited \subseteq {pollingInterval}

\* C9: the first fetched result whose overall status is not ANALYZING is
\* final whatever the per-model statuses are: it is emitted as the "result"
\* event and no further fetch is made.
C9_OverallStatusOnly ==
    LastIsTerminalPayload =>
        /\ pc \in {"returned", "loop", "done"}
        /\ (pc = "returned" => gres = [result |-> FormatResult(lastOut.Body), err |-> Nil])
        /\ (pc \in {"loop", "done"} =>
                emitted = <<[event |-> "result", data |-> FormatResult(lastOut.Body)]>>)

\* C10: no "result" event ever carries a result whose overall status is
\* ANALYZING, and PollForResults never returns nil while the last observed
\* overall status is ANALYZING.
C10_NoPendingSuccess ==
    /\ \A i \in DOMAIN emitted :
            emitted[i].event = "result" => emitted[i].data.Status # "ANALYZING"
    /\ (Returned /\ ret = Nil) => LastIsTerminalPayload

\* C10 witness: a nil return after earlier ANALYZING answers, delivering a
\* verdict whose models are still being analyzed.
C10_Witness ==
    /\ Returned
    /\ ret = Nil
    /\ NumEvents("result") = 1
    /\ emitted[1].data.Status = "AUTHENTIC"
    /\ Len(emitted[1].data.Models) > 0
    /\ emitted[1].data.Models[1].Status = "ANALYZING"

(***************************************************************************)
(* C11: the Timeout option of PollForResults                               *)
(***************************************************************************)
\* The call was made with a PollOptions struct whose Timeout is <= 0.
NonPositiveTimeoutGiven == pc # "idle" /\ opts # Nil /\ opts.Timeout <= 0

\* C11 as stated: a PollForResults call whose Timeout is <= 0 is treated as
\* already expired: it performs no fetch, emits one "error" event carrying a
\* timeout-coded error at once, and returns that same error.
C11_ZeroTimeoutExpired ==
    NonPositiveTimeoutGiven =>
        /\ fetches = 0
        /\ Returned
        /\ emitted = <<[event |-> "error", data |-> TimeoutError]>>
        /\ ret = TimeoutError

\* C11 amended: a PollForResults call whose Timeout is <= 0 polls with the
\* default timeout: maxWaitTime is DefaultTimeout, no event is emitted before
\* a fetch has been made, and the call returns without a fetch only when the
\* context was cancelled before the first attempt (ctx.Err(), no event).
C11_ZeroTimeoutDefaults ==
    NonPositiveTimeoutGiven =>
        /\ timeout = DefaultTimeout
        /\ (emitted # <<>> => fetches > 0)
        /\ (Returned /\ fetches = 0) => (ctxErr # Nil /\ ret = ctxErr /\ emitted = <<>>)

\* C11 witness: a call made with Timeout 0 fetched a verdict and delivered it.
C11_Witness ==
    /\ NonPositiveTimeoutGiven
    /\ opts.Timeout = 0
    /\ Returned
    /\ fetches > 0
    /\ ret = Nil
    /\ NumEvents("result") = 1

(***************************************************************************)
(* C12 .. C18: bounded-attempts fetch (GetResult called directly)          *)
(***************************************************************************)
\* GetResult has returned to its caller.
ReturnedA == pc = "returned"

\* C12: for every maxAttempts N > 0, when every response is still-pending and
\* the context is not cancelled, GetResult performs exactly N fetches and then
\* returns successfully the (still-pending) result of the last fetch.
C12_PendingExhaustion ==
    (ReturnedA /\ ctxErr = Nil /\ kinds = {"pending"}) =>
        /\ fetches = maxAttempts
        /\ gres = [result |-> FormatResult(lastOut.Body), err |-> Nil]
        /\ IsPending(gres.result)

\* C12 witness: MaxAttempts 3, three ANALYZING answers, the third returned.
C12_Witness ==
    /\ ReturnedA
    /\ ctxErr = Nil
    /\ kinds = {"pending"}
    /\ maxAttempts = 3
    /\ fetches = 3
    /\ gres.err = Nil
    /\ gres.result.Status = "ANALYZING"

\* C13 as stated: for every maxAttempts N > 0, when every fetch fails with
\* not_found and the context is not cancelled, GetResult performs exactly N
\* fetches and returns an SDKError whose code is timeout.
C13_NotFoundExhaustionTimeout ==
    (ReturnedA /\ ctxErr = Nil /\ kinds = {"not_found"}) =>
        /\ fetches = maxAttempts
        /\ gres.result = Nil
        /\ gres.err.type = "SDKError"
        /\ gres.err.Code = "timeout"

\* C13 amended: for every maxAttempts N > 0, when every fetch fails with
\* not_found and the context is not cancelled, GetResult performs exactly N
\* fetches and returns no result and an SDKError whose code is not_found;
\* GetResult never returns the "exceeded maximum number of polling attempts"
\* timeout error.
C13_NotFoundExhaustionNotFound ==
    /\ (ReturnedA /\ ctxErr = Nil /\ kinds = {"not_found"}) =>
            /\ fetches = maxAttempts
            /\ gres.result = Nil
            /\ gres.err.type = "SDKError"
            /\ gres.err.Code = "not_found"
    /\ ReturnedA =>
            gres.err # SDKError("timeout", "exceeded maximum number of polling attempts")

\* C13 witness: MaxAttempts 2, two 404 answers, a not_found error returned.
C13_Witness ==
    /\ ReturnedA
    /\ ctxErr = Nil
    /\ kinds = {"not_found"}
    /\ maxAttempts = 2
    /\ fetches = 2
    /\ gres.err.type = "SDKError"
    /\ gres.err.Code = "not_found"

ReportedError(out) ==
    IF out.type = "SDKError" THEN out
    ELSE SDKError("unknown_error", "failed to parse result response")

\* C15: in a direct GetResult call a fetch error other than not_found (an
\* unparseable response, reported as unknown_error, included) is returned at
\* once and unchanged: no retry, no wait, no further fetch and no result, also
\* after earlier pending answers.
C15_OtherErrorImmediate ==
    [][/\ (pc = "inflight" /\ pc' # "inflight" /\ Kind(lastOut') = "error") =>
            /\ pc' = "returned"
            /\ gres' = [result |-> Nil, err |-> ReportedError(lastOut')]
            /\ attempt' = attempt
            /\ waited' = waited
       /\ ReturnedA => (pc' = pc /\ gres' = gres /\ fetches' = fetches)]_vars

\* C15 witness: an unparseable body after two pending answers ended the call
\* with the unknown_error parse failure.
C15_Witness ==
    /\ ReturnedA
    /\ lastOut.type = "bytes"
    /\ lastOut.Body = Garbage
    /\ kinds = {"pending", "error"}
    /\ fetches = 3
    /\ gres.err.Code = "unknown_error"

\* C16: for every overall status and every (possibly empty) list of model
\* statuses, getDetectionResult treats the formatted result as still-pending
\* (counts the attempt and waits, or returns it on exhaustion) exactly when
\* the overall status is ANALYZING, or every model is ANALYZING or
\* NOT_APPLICABLE and at least one is ANALYZING; any other result is final and
\* returned at once.
C16_Classification ==
    [][(pc = "inflight" /\ pc' # "inflight" /\ Kind(lastOut') \in {"pending", "final"}) =>
        LET result == FormatResult(lastOut'.Body)
        IN /\ IsPending(result) =>
                /\ attempt' = attempt + 1
                /\ \/ pc' = "wait"
                   \/ /\ attempt' >= maxAttempts
                      /\ pc' = "returned"
                      /\ gres' = [result |-> result, err |-> Nil]
           /\ ~IsPending(result) =>
                /\ attempt' = attempt
                /\ pc' = "returned"
                /\ gres' = [result |-> result, err |-> Nil]]_vars

\* C16 witness: after a pending answer, an answer with overall status
\* AUTHENTIC and two NOT_APPLICABLE models was returned as final.
C16_Witness ==
    /\ ReturnedA
    /\ kinds = {"pending", "final"}
    /\ lastOut.type = "bytes"
    /\ lastOut.Body # Garbage
    /\ lastOut.Body.Status = "AUTHENTIC"
    /\ Len(lastOut.Body.Models) = 2
    /\ lastOut.Body.Models[1].Status = "NOT_APPLICABLE"
    /\ lastOut.Body.Models[2].Status = "NOT_APPLICABLE"
    /\ attempt < maxAttempts
    /\ gres = [result |-> FormatResult(lastOut.Body), err |-> Nil]

\* C17: GetResult stops at the first final result: when the k-th response
\* (k <= maxAttempts) is the first one classified final and the k-1 earlier
\* ones were still-pending, GetResult has made exactly k fetches, makes no
\* further one, and returns the formatted k-th result.
C17_StopsAtFirstFinal ==
    (lastOut # Nil /\ Kind(lastOut) = "final" /\ kinds \subseteq {"pending", "final"}) =>
        /\ ReturnedA
        /\ fetches = attempt + 1
        /\ fetches <= maxAttempts
        /\ gres = [result |-> FormatResult(lastOut.Body), err |-> Nil]

\* C17 witness: two ANALYZING answers, then a FAKE verdict, returned as
\* MANIPULATED with score 0.95 after exactly three fetches.
C17_Witness ==
    /\ ReturnedA
    /\ ctxErr = Nil
    /\ kinds = {"pending", "final"}
    /\ priorAnalyzing
    /\ fetches = 3
    /\ gres.err = Nil
    /\ gres.result.Status = "MANIPULATED"
    /\ gres.result.Score = Score(95, 100)

\* C18: the waits of a direct GetResult call are interruptible: when the
\* context is cancelled while GetResult waits between attempts (after a
\* pending result or after a not_found), the wait does not complete: the call
\* returns ctx.Err() with no result and performs no further fetch.
C18_WaitInterruptible ==
    [][(pc = "wait" /\ ctxErr # Nil) =>
            /\ pc' = "returned"
            /\ gres' = [result |-> Nil, err |-> ctxErr]
            /\ fetches' = fetches]_vars

\* C18 witness: cancelled during the wait after a pending and a not_found
\* answer, GetResult returned context.Canceled after its two fetches.
C18_Witness ==
    /\ ReturnedA
    /\ kinds = {"pending", "not_found"}
    /\ fetches = 2
    /\ attempt = 2
    /\ attempt < maxAttempts
    /\ ctxErr = CtxError("context canceled")
    /\ gres = [result |-> Nil, err |-> ctxErr]

(***************************************************************************)
(* C19, C20: cancellation and the attempts                                 *)
(***************************************************************************)
\* C19: the inter-attempt wait of PollForResults is interruptible: when the
\* context is cancelled during that wait, no further fetch is made and the
\* call returns ctx.Err() without an event; it does not turn into a timeout,
\* also when the wait was the last one before elapsed reaches the timeout.
C19_SleepInterruptible ==
    cancelledAt = "sleep" =>
        /\ pc \in {"sleep", "loop", "done"}
        /\ Returned => (ret = ctxErr /\ emitted = <<>>)

\* C20: cancellation is checked before each new attempt: when the context is
\* already cancelled at the moment GetResult (or PollForResults) is about to
\* start an attempt, the first one included, that fetch is not issued and the
\* call returns ctx.Err().
C20_CheckedBeforeAttempt ==
    cancelledAt \in {"idle", "get"} =>
        /\ pc \in {"idle", "get", "returned"}
        /\ ReturnedA => gres = [result |-> Nil, err |-> ctxErr]

(***************************************************************************)
(* C21, C22: what a cancelled PollForResults returns                       *)
(***************************************************************************)
\* The context was cancelled before any fetch of the poll had completed: at
\* most the first fetch was issued, and it did not return before the
\* cancellation (it is still to return, or it failed because of it).
CancelledBeforeAnyFetchCompleted ==
    /\ ctxErr # Nil
    /\ fetches <= 1
    /\ (lastOut = Nil \/ lastOut \in RequestFailed(ctxErr.Message))

\* C21: when the context is cancelled before any fetch of a poll completes,
\* PollForResults returns ctx.Err(): never an SDKError of any code, never a
\* timeout, and no event reports a fetch attempt's result or error.
C21_CancellationPrecedence ==
    CancelledBeforeAnyFetchCompleted =>
        /\ emitted = <<>>
        /\ Returned => ret = ctxErr

\* The context was cancelled while the call was under way, after at least
\* one answer, and every fetch that completed before the cancellation
\* returned a payload whose overall status is ANALYZING.
CancelledWhilePending ==
    /\ ctxErr # Nil
    /\ cancelledAt \in {"get", "inflight", "wait", "returned", "sleep"}
    /\ fetches >= 2
    /\ priorAnalyzing
    /\ (IsAnalyzingPayload(lastOut) \/ lastOut \in RequestFailed(ctxErr.Message))

\* C22: when the context is cancelled or reaches its deadline while
\* PollForResults is still pending on a transport that keeps answering
\* ANALYZING, the call returns exactly the context's error, not the SDK
\* timeout error (nor any other SDKError), whatever PollOptions.Timeout is.
C22_ContextErrorReturned ==
    (Returned /\ CancelledWhilePending) => ret = ctxErr

(***************************************************************************)
(* C23: GetResult and the events                                           *)
(***************************************************************************)
\* C23: a direct GetResult call never emits: no step of it, whatever it ends
\* with (final result, partial result, error or cancellation), calls emit or
\* invokes a handler, and the handler registry is left as it was.
C23_GetResultSilent ==
    [][/\ emitted' = emitted
       /\ handlers' = handlers
       /\ \A g \in Goroutines : gor'[g].calls = gor[g].calls]_vars

\* C23 witness: GetResult returned a cancellation out of a wait, and nothing
\* was emitted.
C23_Witness ==
    /\ ReturnedA
    /\ ctxErr = CtxError("context deadline exceeded")
    /\ gres = [result |-> Nil, err |-> ctxErr]
    /\ kinds = {"pending"}
    /\ emitted = <<>>
    /\ handlers = EmptyRegistry


\* The invocations a completed emission of goroutine g must have made: one
\* per handler of the list it looked up, in the order of the list, each with
\* the payload of the emission.
ExpectedCalls(g) ==
    [i \in 1..Len(gor[g].hs) |->
        [event |-> gor[g].ev, handler |-> gor[g].hs[i], data |-> gor[g].emits[1].data]]

\* C24: an emission for event name E invokes every handler registered for E
\* exactly once, in registration order, each with the emitted payload, and
\* all the invocations are made before emit returns: while the emission
\* iterates, the list it iterates is the registered list of E; at each
\* iteration the invocations made are those of the handlers before the
\* current one; and when the loop has ended and when emit has returned the
\* invocations are exactly one per registered handler, in list order.
C24_DispatchOrder ==
    \A g \in Goroutines :
        /\ gor[g].pc \in {"emit_call", "emit_unlock"} /\ gor[g].ev \in DOMAIN handlers
              => gor[g].hs = handlers[gor[g].ev]
        /\ gor[g].pc = "emit_call"
              => gor[g].calls = SubSeq(ExpectedCalls(g), 1, gor[g].i - 1)
        /\ gor[g].pc \in {"emit_unlock", "done"} => gor[g].calls = ExpectedCalls(g)

\* An emission has returned after invoking two different handlers of its
\* event, registered by On calls before it.
C24_Witness ==
    \E g \in Goroutines :
        /\ gor[g].pc = "done"
        /\ Len(gor[g].calls) = 2
        /\ gor[g].calls[1].handler # gor[g].calls[2].handler
        /\ handlers[gor[g].ev] = <<gor[g].calls[1].handler, gor[g].calls[2].handler>>


\* C25: emitting an event name that has no registered handler is a no-op
\* (the lookup goes straight to the unlock, the unlock returns to the caller,
\* no handler is invoked, the registry is unchanged), and no step of an
\* emission changes the registry or invokes a handler registered under a
\* name other than the emitted one.
C25_UnregisteredNoOp ==
    [][\A g \in Goroutines :
          /\ gor[g].pc = "emit_lookup" /\ gor[g].ev \notin DOMAIN handlers /\ gor'[g] # gor[g]
                => /\ gor'[g].pc = "emit_unlock"
                   /\ gor'[g].calls = gor[g].calls
                   /\ handlers' = handlers
          /\ gor[g].pc = "emit_unlock" /\ gor'[g] # gor[g]
                => /\ gor'[g].pc = gor[g].after
                   /\ gor'[g].calls = gor[g].calls
                   /\ handlers' = handlers
          /\ gor[g].pc \in {"emit_rlock", "emit_call"} /\ gor'[g] # gor[g]
                => handlers' = handlers
          /\ \A i \in 1..Len(gor'[g].calls) :
                /\ gor'[g].calls[i].handler.event = gor'[g].calls[i].event
                /\ gor'[g].calls[i].event = gor'[g].ev
      ]_vars

\* An emission of an event name without handlers has returned, having invoked
\* nothing, on a client whose registry holds a handler of the other name.
C25_Witness ==
    \E g \in Goroutines :
        /\ gor[g].pc = "done"
        /\ Len(gor[g].emits) = 1
        /\ gor[g].ev \notin DOMAIN handlers
        /\ gor[g].calls = <<>>
        /\ \E e \in DOMAIN handlers : e # gor[g].ev /\ Len(handlers[e]) >= 1


\* C26: the dispatcher does not deadlock when a handler registers a new
\* handler during emission: an On call made by a handler that an emission
\* invoked returns, and the emission completes.
C26_NestedOnReturns ==
    \A g \in Goroutines :
        (gor[g].inHandler /\ gor[g].pc = "on_lock") ~> (gor[g].pc = "done")


\* Goroutines inside the critical section of On (between Lock and Unlock).
InWrite == {g \in Goroutines : gor[g].pc \in {"on_load", "on_store", "on_unlock"}}

\* Goroutines inside the critical section of emit (between RLock and
\* RUnlock), the handlers they call included.
InRead ==
    {g \in Goroutines :
        \/ gor[g].pc \in {"emit_lookup", "emit_call", "emit_unlock"}
        \/ gor[g].inHandler}

\* Number of positions of the list s that hold h.
Occurrences(s, h) == Cardinality({i \in 1..Len(s) : s[i] = h})

\* Every handler whose On call has returned.
Registered ==
    UNION {{gor[g].registered[i] : i \in 1..Len(gor[g].registered)} : g \in Goroutines}

\* C27: the registry is mutually exclusive: at most one goroutine is inside
\* On's critical section and none is while an emission reads the registry; no
\* registration is lost or duplicated (every handler whose On call returned is
\* in the list of its event exactly once, and a list holds nothing else than
\* such handlers and the handler of the On call that is about to unlock); and
\* the list an emission iterates holds only handlers whose On call returned.
C27_RegistryExclusive ==
    /\ Cardinality(InWrite) <= 1
    /\ InWrite # {} => InRead = {}
    /\ InRead = eventsMutex.readers
    /\ \A h \in Registered :
          h.event \in DOMAIN handlers /\ Occurrences(handlers[h.event], h) = 1
    /\ \A e \in DOMAIN handlers : \A i \in 1..Len(handlers[e]) :
          /\ handlers[e][i].event = e
          /\ Occurrences(handlers[e], handlers[e][i]) = 1
          /\ \/ handlers[e][i] \in Registered
             \/ \E g \in Goroutines : gor[g].pc = "on_unlock" /\ gor[g].handler = handlers[e][i]
    /\ \A g \in Goroutines :
          gor[g].pc \in {"emit_call", "emit_unlock"}
             => \A i \in 1..Len(gor[g].hs) : gor[g].hs[i] \in Registered

\* Two goroutines have each registered a handler for the same event, both On
\* calls have returned, and an emission of that event has invoked both.
C27_Witness ==
    \E e \in DOMAIN handlers :
        /\ Len(handlers[e]) = 2
        /\ handlers[e][1].owner # handlers[e][2].owner
        /\ \A g \in Goroutines : Len(gor[g].registered) = 1
        /\ \E g \in Goroutines : gor[g].pc = "done" /\ gor[g].ev = e /\ Len(gor[g].calls) = 2


\* pollForResults run alone: the value it returns and the events it emits
\* when the k-th and later things it hears (the returns of c.GetResult, or
\* ctx.Done()) are those of `outs`, from `el` elapsed on; "running" while the
\* loop would go on beyond `outs`.
RECURSIVE PollAlone(_, _, _, _, _)
PollAlone(outs, k, el, interval, tmo) ==
    IF el >= tmo
    THEN [ret |-> TimeoutError, emits |-> <<[event |-> "error", data |-> TimeoutError]>>]
    ELSE IF k > Len(outs)
    THEN [ret |-> [type |-> "running"], emits |-> <<>>]
    ELSE LET out == outs[k]
         IN IF out.from = "ctx"
            THEN [ret |-> out.err, emits |-> <<>>]
            ELSE IF out.err # Nil
            THEN IF IsNotFound(out.err)
                 THEN PollAlone(outs, k + 1, el + interval, interval, tmo)
                 ELSE [ret |-> out.err, emits |-> <<[event |-> "error", data |-> out.err]>>]
            ELSE IF out.result.Status = "ANALYZING"
            THEN PollAlone(outs, k + 1, el + interval, interval, tmo)
            ELSE [ret |-> Nil, emits |-> <<[event |-> "result", data |-> out.result]>>]

\* C28: concurrent polls are independent: a poll that has returned has
\* returned the value and emitted the events that pollForResults run alone
\* produces from what this poll heard, a result it emitted is that of its own
\* request, its handlers were called with its own payload, and a step of a
\* poll changes nothing of another goroutine and nothing of the client.
C28_PollsIndependent ==
    [][\A g \in Goroutines :
          /\ gor'[g].pc = "done"
                => /\ [ret |-> gor'[g].ret, emits |-> gor'[g].emits]
                        = PollAlone(gor'[g].outs, 1, 0, gor'[g].pollingInterval,
                                    gor'[g].timeout)
                   /\ \A i \in 1..Len(gor'[g].emits) :
                         gor'[g].emits[i].event = "result"
                            => gor'[g].emits[i].data.RequestID = g
                   /\ \A i \in 1..Len(gor'[g].calls) :
                         gor'[g].calls[i].data = gor'[g].emits[1].data
          /\ gor[g].pc = "loop" /\ gor'[g] # gor[g]
                => /\ \A h \in Goroutines \ {g} : gor'[h] = gor[h]
                   /\ handlers' = handlers
                   /\ eventsMutex' = eventsMutex
      ]_vars

\* Both polls have returned, one with a final result, the other with the
\* timeout error, each having emitted its own single event, the second to a
\* registered handler.
C28_Witness ==
    /\ \A g \in Goroutines : gor[g].pc = "done" /\ Len(gor[g].emits) = 1
    /\ \E g \in Goroutines :
          /\ gor[g].ret = Nil
          /\ gor[g].emits[1].event = "result"
          /\ gor[g].emits[1].data.RequestID = g
    /\ \E g \in Goroutines :
          /\ gor[g].ret = TimeoutError
          /\ Len(gor[g].calls) >= 1


\* C29: FormatResult rewrites the status "FAKE" to "MANIPULATED" and returns
\* every other status string unchanged, for the overall status and for the
\* status of every model alike; it keeps the number and the names of the
\* models.
C29_StatusRewrite ==
    fmtOut # Nil =>
        /\ fmtOut.Status = (IF fmtIn.Status = "FAKE" THEN "MANIPULATED" ELSE fmtIn.Status)
        /\ Len(fmtOut.Models) = Len(fmtIn.Models)
        /\ \A i \in 1..Len(fmtIn.Models) :
              /\ fmtOut.Models[i].Name = fmtIn.Models[i].Name
              /\ fmtOut.Models[i].Status =
                    (IF fmtIn.Models[i].Status = "FAKE" THEN "MANIPULATED"
                     ELSE fmtIn.Models[i].Status)

\* FormatResult has formatted a payload whose overall status is "FAKE" and
\* whose model carries a vendor value.
C29_Witness ==
    /\ fmtOut # Nil
    /\ fmtIn.Status = "FAKE"
    /\ fmtOut.Status = "MANIPULATED"
    /\ Len(fmtIn.Models) = 1
    /\ fmtIn.Models[1].Status = "fake"
    /\ fmtOut.Models[1].Status = "fake"


\* A score is in the closed unit interval: 0 <= num/den <= 1.
InUnitInterval(s) == 0 <= s.num /\ s.num <= s.den

\* A raw score is on one of the two upstream scales: 0 <= num/den <= 100.
OnUpstreamScale(s) == 0 <= s.num /\ s.num <= 100 * s.den

\* The pairs <<raw score, formatted score>> of a FormatResult call: the
\* overall score and the score of every model.
ScorePairs ==
    {<<fmtIn.FinalScore, fmtOut.Score>>}
    \cup {<<fmtIn.Models[i].FinalScore, fmtOut.Models[i].Score>> : i \in 1..Len(fmtIn.Models)}

ScoreRule(raw, out) ==
    IF raw = Nil THEN out = Nil
    ELSE IF raw.num > raw.den THEN out = Score(raw.num, raw.den * 100)
    ELSE out = raw

\* C31: FormatResult leaves an absent score absent, divides a present score
\* greater than 1 by 100 and keeps a present score of at most 1, for the
\* overall score and for the score of each model on its own, and it does not
\* modify the raw response.
C31_ScoreRewriteRule ==
    [][/\ fmtIn' = fmtIn
       /\ fmtOut' # Nil =>
            /\ ScoreRule(fmtIn'.FinalScore, fmtOut'.Score)
            /\ Len(fmtOut'.Models) = Len(fmtIn'.Models)
            /\ \A i \in 1..Len(fmtIn'.Models) :
                  ScoreRule(fmtIn'.Models[i].FinalScore, fmtOut'.Models[i].Score)
      ]_vars

\* FormatResult has formatted a payload whose overall score is exactly 1 and
\* whose model has a score above 1.
C31_Witness ==
    /\ fmtOut # Nil
    /\ fmtIn.FinalScore = Score(1, 1)
    /\ fmtOut.Score = Score(1, 1)
    /\ Len(fmtIn.Models) = 1
    /\ fmtIn.Models[1].FinalScore = Score(3, 2)
    /\ fmtOut.Models[1].Score = Score(3, 200)


\* C32: GetResult called with nil options or with MaxAttempts <= 0 runs with
\* 30 attempts, and with nil options or PollingInterval <= 0 with waits of
\* 2000 ms (positive options are taken as given); a call that runs with 30
\* attempts and hears only pending answers returns after exactly 30 fetches,
\* and every wait of a call lasts the interval the call runs with.
C32_GetResultDefaults ==
    [][/\ \A o \in GetResultOptionsValues :
             GetResult(o) =>
                /\ (o = Nil \/ o.MaxAttempts <= 0) => maxAttempts' = 30
                /\ (o = Nil \/ o.PollingInterval <= 0) => getInterval' = 2000
                /\ (o # Nil /\ o.MaxAttempts > 0) => maxAttempts' = o.MaxAttempts
                /\ (o # Nil /\ o.PollingInterval > 0) => getInterval' = o.PollingInterval
       /\ (pc' = "returned" /\ ctxErr' = Nil /\ kinds' = {"pending"} /\ maxAttempts' = 30)
             => (fetches' = 30 /\ gres'.err = Nil)
       /\ pc' = "wait" => waited' = {getInterval'}
      ]_vars

\* A GetResult call running with the defaults has heard thirty pending
\* answers, waited 2000 ms between them and returned the last one.
C32_Witness ==
    /\ ReturnedA
    /\ ctxErr = Nil
    /\ kinds = {"pending"}
    /\ maxAttempts = 30
    /\ getInterval = 2000
    /\ fetches = 30
    /\ waited = {2000}
    /\ gres.err = Nil


\* C33: PollForResults called with nil options, or with a PollOptions field
\* that is zero or negative, polls with pollingInterval 2000 ms and timeout
\* 60000 ms for that field (a positive field is taken as given), and polls
\* normally with them: no event before a fetch, elapsed advancing by whole
\* polling intervals, and the timeout error only once elapsed has reached the
\* timeout.
C33_PollDefaults ==
    pc # "idle" =>
        /\ pollingInterval = (IF opts = Nil \/ opts.PollingInterval <= 0 THEN 2000
                              ELSE opts.PollingInterval)
        /\ timeout = (IF opts = Nil \/ opts.Timeout <= 0 THEN 60000 ELSE opts.Timeout)
        /\ elapsed % pollingInterval = 0
        /\ emitted # <<>> => fetches > 0
        /\ (Returned /\ ret = TimeoutError) => elapsed >= timeout

\* A call made with nil options has polled with 2000 ms and 60000 ms, waited
\* through a pending answer and delivered a final result.
C33_Witness ==
    /\ Returned
    /\ opts = Nil
    /\ pollingInterval = 2000
    /\ timeout = 60000
    /\ elapsed = 2000
    /\ ret = Nil
    /\ NumEvents("result") = 1


\* The size limit in bytes that SupportedFileTypes gives to each path of
\* FilePaths, by its extension in any case; 0 for a path without a supported
\* extension.
LimitOfPath(path) ==
    CASE path \in {"notes.txt", "NOTES.TXT"} -> 5242880
      [] path = "photo.jpeg" -> 52428800
      [] path = "media/clip.mp4" -> 262144000
      [] path = "song.wav" -> 20971520
      [] OTHER -> 0

\* The error code Upload's validation owes to its input: invalid_file for an
\* empty path, a missing file or an unsupported extension, file_too_large for
\* a file above the limit of its type, "" for a file that passes.
RejectedFile ==
    IF upIn.FilePath = "" \/ upIn.file.stat = "not_exist" \/ LimitOfPath(upIn.FilePath) = 0
    THEN "invalid_file"
    ELSE IF upIn.file.size > LimitOfPath(upIn.FilePath) THEN "file_too_large"
    ELSE ""

\* The links of SocialLinks that are http or https URLs with a host.
WellFormedLinks == {"https://example.com/post/1", "HTTP://Example.com/x"}

\* C34: input validation precedes the network in both upload operations: an
\* Upload with an empty path, a missing file, an unsupported extension
\* (invalid_file) or a file above the size limit of its type (file_too_large),
\* and an UploadSocialMedia with an empty link or a link that is not an http
\* or https URL with a host (invalid_request), has returned that error with a
\* nil result and has issued no HTTP request; a call that has issued a request
\* had an input that passes.
C34_ValidationBeforeNetwork ==
    /\ (upIn # Nil /\ upIn.op = "Upload" /\ (upIn.FilePath = "" \/ upIn.file.stat # "error"))
          => IF RejectedFile # ""
             THEN /\ upc = "returned"
                  /\ requests = <<>>
                  /\ upOut.result = Nil
                  /\ upOut.err.type = "SDKError"
                  /\ upOut.err.Code = RejectedFile
             ELSE requests # <<>>
    /\ (upIn # Nil /\ upIn.op = "UploadSocialMedia")
          => IF upIn.SocialLink \notin WellFormedLinks
             THEN /\ upc = "returned"
                  /\ requests = <<>>
                  /\ upOut.result = Nil
                  /\ upOut.err.type = "SDKError"
                  /\ upOut.err.Code = "invalid_request"
             ELSE requests # <<>>

\* An Upload of a .TXT file one byte above the 5 MB limit has returned
\* file_too_large without any request.
C34_Witness ==
    /\ upc = "returned"
    /\ upIn.op = "Upload"
    /\ upIn.FilePath = "NOTES.TXT"
    /\ upIn.file.stat = "ok"
    /\ upIn.file.size = 5242881
    /\ upOut = [result |-> Nil,
                err |-> SDKError("file_too_large", "File too large to upload: NOTES.TXT")]
    /\ requests = <<>>


\* C35: UploadSocialMedia reports every failure of its POST (an HTTP status
\* 400, 401, 403, 404, 429 or 500, or a request that could not be made) as an
\* SDKError whose code is upload_failed, with a nil result, whatever code the
\* transport gave the failure.
C35_PostFailureIsUploadFailed ==
    [][\A out \in PostOutcomes(SocialBodies) :
          (UploadSocialPosted(out) /\ out.type = "SDKError")
             => /\ upc' = "returned"
                /\ upOut'.result = Nil
                /\ upOut'.err.type = "SDKError"
                /\ upOut'.err.Code = "upload_failed"
      ]_vars

\* An UploadSocialMedia call whose POST was answered 404 has returned an
\* upload_failed error that carries the transport's not_found message.
C35_Witness ==
    /\ upc = "returned"
    /\ upIn.op = "UploadSocialMedia"
    /\ Len(requests) = 1
    /\ upOut = [result |-> Nil,
                err |-> SDKError("upload_failed",
                                 "Social media link upload failed:: Resource not found")]


\* C36: in every GetResult call, whatever mix of not_found failures and
\* pending results it hears, the attempt counter stays between 0 and
\* maxAttempts, the fetches never outnumber maxAttempts, and the fetches are
\* issued one after another: a fetch is issued only at the loop head, when no
\* fetch is in flight, and with one fetch in flight the attempts counted are
\* those of the fetches that have returned.
C36_AttemptBound ==
    [][/\ pc' # "idle" =>
            /\ 0 <= attempt' /\ attempt' <= maxAttempts'
            /\ 0 <= fetches' /\ fetches' <= maxAttempts'
            /\ pc' = "inflight" => attempt' = fetches' - 1
            /\ pc' \in {"get", "wait"} => attempt' = fetches'
       /\ fetches' # fetches =>
            /\ fetches' = fetches + 1
            /\ pc = "get"
            /\ pc' = "inflight"
       /\ attempt' # attempt => (pc = "inflight" /\ attempt' = attempt + 1)
      ]_vars

\* A GetResult call with three attempts has heard three answers, not_found
\* failures and pending results mixed, the last a not_found failure, and has
\* returned.
C36_Witness ==
    /\ ReturnedA
    /\ maxAttempts = 3
    /\ attempt = 3
    /\ fetches = 3
    /\ kinds = {"not_found", "pending"}
    /\ IsNotFound(lastOut)


\* The timeout of the call is reached within the loop iterations explored.
WithinIters == pc # "idle" /\ timeout <= MaxIters * pollingInterval

\* C37: every poll reaches exactly one terminal outcome: when every fetch
\* returns and every wait elapses or is cancelled, a GetResult call that has
\* started returns and a PollForResults call that has started returns; and a
\* PollForResults call that has returned makes no further fetch, wait or
\* emission and keeps the value it returned.
C37_Terminates ==
    /\ (pc \in {"get", "inflight", "wait"}) ~> (pc = "returned")
    /\ WithinIters ~> Returned
    /\ [][Returned => /\ pc' = "done"
                      /\ ret' = ret
                      /\ fetches' = fetches
                      /\ waited' = waited
                      /\ emitted' = emitted]_vars

\* A call has run out of time after pending answers and has returned the
\* timeout error, emitted once.
C37_Witness ==
    /\ Returned
    /\ WithinIters
    /\ ret = TimeoutError
    /\ elapsed >= timeout
    /\ fetches >= 2
    /\ emitted = <<[event |-> "error", data |-> TimeoutError]>>


\* C38: in GetResult not_found failures and pending results consume the same
\* attempt counter, and at exhaustion the last attempt alone decides: a call
\* that has heard only not_found failures and pending results, in any mix,
\* returns after exactly maxAttempts fetches; when the last one failed with
\* not_found it returns that error and no result, and when the last one was a
\* pending payload it returns that payload, formatted, and no error.
C38_LastAttemptDecides ==
    (ReturnedA /\ ctxErr = Nil /\ kinds # {} /\ kinds \subseteq {"not_found", "pending"}) =>
        /\ attempt = maxAttempts
        /\ fetches = maxAttempts
        /\ IF IsNotFound(lastOut)
           THEN gres = [result |-> Nil, err |-> lastOut]
           ELSE /\ gres = [result |-> FormatResult(lastOut.Body), err |-> Nil]
                /\ IsPending(gres.result)

\* A GetResult call with two attempts has heard a not_found failure and then
\* a pending payload, and has returned the payload.
C38_Witness ==
    /\ ReturnedA
    /\ ctxErr = Nil
    /\ maxAttempts = 2
    /\ fetches = 2
    /\ kinds = {"not_found", "pending"}
    /\ ~IsNotFound(lastOut)
    /\ gres.err = Nil
    /\ IsPending(gres.result)


\* C39: elapsed accounting of PollForResults: elapsed is 0 when the call
\* starts; it changes only by one pollingInterval, when an iteration ends
\* pending (GetResult returned a not_found error or an ANALYZING result) and
\* never when it ends with a final result or another error; it is always a
\* non-negative multiple of pollingInterval; every iteration starts with
\* 0 <= elapsed < timeout; and the timeout error is produced only with
\* elapsed >= timeout and no final result delivered.
C39_ElapsedAccounting ==
    [][/\ (pc = "idle" /\ pc' # "idle") => elapsed' = 0
       /\ (pc # "idle" /\ elapsed' # elapsed) =>
             /\ elapsed' = elapsed + pollingInterval
             /\ pc = "returned" /\ pc' = "sleep"
             /\ \/ gres.err # Nil /\ IsNotFound(gres.err)
                \/ gres.err = Nil /\ gres.result.Status = "ANALYZING"
       /\ (pc = "returned" /\ pc' = "sleep") => elapsed' = elapsed + pollingInterval
       /\ pc' # "idle" => (elapsed' >= 0 /\ elapsed' % pollingInterval' = 0)
       /\ (pc = "loop" /\ pc' \in {"get", "done"} /\ ret' # TimeoutError /\ ~isCompleted)
             => (0 <= elapsed /\ elapsed < timeout)
       /\ (pc = "loop" /\ ret' = TimeoutError /\ pc' = "done")
             => (elapsed >= timeout /\ ~isCompleted /\ NumEvents("result") = 0)
      ]_vars

\* A call with interval 2 and timeout 3 has gone through two pending
\* iterations and has returned the timeout error with elapsed 4.
C39_Witness ==
    /\ Returned
    /\ pollingInterval = 2
    /\ timeout = 3
    /\ elapsed = 4
    /\ ret = TimeoutError
    /\ NumEvents("result") = 0


\* C40: GetResults retries only a fetch that failed with not_found: it counts
\* the attempt and waits (a wait the context can end, returning the context's
\* error without a further fetch), and returns the not_found error once
\* maxAttempts fetches were made, so at most maxAttempts fetches happen. Any
\* other error (the unknown_error of an unreadable body included) is returned
\* at once with no result. The first parsed page is returned at once, whatever
\* the statuses of its entries: a DetectionResultList with the four pagination
\* fields of the response and FormatResult of every entry in response order.
C40_ListingRetriesOnlyNotFound ==
    [][/\ (pc = "list_inflight" /\ pc' # "list_inflight") =>
            IF IsNotFound(lastOut')
            THEN /\ attempt' = attempt + 1
                 /\ IF attempt' >= maxAttempts
                    THEN pc' = "list_returned" /\ gres' = [result |-> Nil, err |-> lastOut']
                    ELSE pc' = "list_wait" /\ gres' = gres
            ELSE IF lastOut'.type = "SDKError"
            THEN /\ pc' = "list_returned"
                 /\ gres' = [result |-> Nil, err |-> lastOut']
                 /\ attempt' = attempt
            ELSE IF lastOut'.Body = Garbage
            THEN /\ pc' = "list_returned"
                 /\ gres'.result = Nil
                 /\ gres'.err.Code = "unknown_error"
                 /\ attempt' = attempt
            ELSE /\ pc' = "list_returned"
                 /\ attempt' = attempt
                 /\ gres'.err = Nil
                 /\ gres'.result.type = "DetectionResultList"
                 /\ gres'.result.TotalItems = lastOut'.Body.TotalItems
                 /\ gres'.result.TotalPages = lastOut'.Body.TotalPages
                 /\ gres'.result.CurrentPage = lastOut'.Body.CurrentPage
                 /\ gres'.result.CurrentPageItemsCount = lastOut'.Body.CurrentPageItemsCount
                 /\ Len(gres'.result.Items) = Len(lastOut'.Body.MediaList)
                 /\ \A i \in 1..Len(lastOut'.Body.MediaList) :
                        gres'.result.Items[i] = FormatResult(lastOut'.Body.MediaList[i])
       /\ (pc' \in {"list_get", "list_inflight", "list_wait", "list_returned"}) =>
            fetches' <= maxAttempts'
       /\ (pc = "list_wait" /\ ctxErr # Nil /\ pc' # pc) =>
            /\ pc' = "list_returned"
            /\ gres' = [result |-> Nil, err |-> ctxErr]
            /\ fetches' = fetches
       /\ (pc = "list_returned") =>
            (pc' = pc /\ gres' = gres /\ fetches' = fetches)]_vars

\* C40 witness: after one not_found answer and its wait, the second fetch
\* brought a page of two entries, the first still ANALYZING and the second
\* FAKE, and the call returned it formatted, in that order.
C40_Witness ==
    /\ pc = "list_returned"
    /\ fetches = 2
    /\ attempt = 1
    /\ gres.err = Nil
    /\ gres.result.TotalItems = 25
    /\ Len(gres.result.Items) = 2
    /\ gres.result.Items[1].Status = "ANALYZING"
    /\ gres.result.Items[2].Status = "MANIPULATED"

=============================================================================
